---- MODULE Spec2Model ----
(***************************************************************************)
(* Ledger reconciler of the investor portal (app/tasks.py,                 *)
(* sync_blockchain_events) and the sync_chain management command.          *)
(*                                                                         *)
(* SpecWallets runs the reconciler on feeds with mixed-case wallets,       *)
(* SpecOverlap runs two invocations at once, SpecAdmin is the SPV          *)
(* console's distribute_payment and create_investor_position.             *)
(*                                                                         *)
(* Money is kept in micro-units (10^-6), the scale of balance_due and of   *)
(* share.quantize(Decimal("0.000001")).  Slices are whole numbers: every   *)
(* event.value is an on-chain uint256.                                     *)
(***************************************************************************)
EXTENDS Integers, Sequences, FiniteSets, TLC

VARIABLES
    chain,              \* the explorer's transaction feed for the contract
    loans,              \* Loan rows, in primary-key order
    investors,          \* Investor rows, by wallet_address
    positions,          \* InvestorPosition rows, in primary-key order
    cashflows,          \* CashflowHistory rows, keyed by the unique tx_hash
    last_synced_block,  \* SyncState(key="hq_master_sync").last_synced_block
    pc,                 \* "idle" | "run": is a sync_blockchain_events call in progress
    optReset,           \* options['reset'] of the running sync_chain command
    startblock,         \* params["startblock"] of the running call
    tx_list,            \* data.get("result", []) of the running call
    txIdx,              \* position of the loop `for tx in tx_list`
    evIdx,              \* position of the loop `for event in receipt.events`
    lastResult,         \* how the latest call ended ("none" before it has)
    runs,               \* calls so far that got a transaction list to process
    startCursor,        \* history: last_synced_block when the running call began
    snap,               \* history: the ledger when the current transaction began
    processed,          \* history: feed entries whose progress has been saved
    credited            \* history: one <<tx_hash, position pk>> per balance_due credit

vars == <<chain, loans, investors, positions, cashflows, last_synced_block, pc,
          optReset, startblock, tx_list, txIdx, evIdx, lastResult, runs,
          startCursor, snap, processed, credited>>

-----------------------------------------------------------------------------
(* Bounds of the model *)

MaxTxs == 3
MaxRuns == 2
MaxOverlapTxs == 2
MaxAdminCalls == 4
MaxTokenizeCalls == 3
MaxShareTxs == 2
MaxTrancheCalls == 3
MaxPolls == 2
MaxHolders == 2

(* Program constants *)

DEFAULT_TOTAL_SLICES == 100

ZERO_ADDRESS == "0x0000000000000000000000000000000000000000"
ADMIN_ADDRESSES == {"0xad"}

-----------------------------------------------------------------------------
(* Values *)

\* str.lower() on the wallet spellings that occur in the feed
Lower(a) ==
    CASE a = "0xAa" -> "0xaa"
      [] a = "0xBb" -> "0xbb"
      [] OTHER -> a

\* Decimal.quantize under the default context: round half to even, n/d to a whole number
RoundHalfEvenAbs(n, d) ==
    LET q == n \div d
        r == n % d
    IN  IF 2 * r < d THEN q
        ELSE IF 2 * r > d THEN q + 1
        ELSE IF q % 2 = 0 THEN q ELSE q + 1

RoundHalfEven(n, d) ==
    IF n >= 0 THEN RoundHalfEvenAbs(n, d) ELSE 0 - RoundHalfEvenAbs(0 - n, d)

\* share = (actual_amount * slices_owned / total_slices).quantize(Decimal("0.000001")) with
\* actual_amount = Decimal(event.amount) / Decimal(10**6): in micro-units the two factors
\* of 10^6 cancel, and the share is amount * slices_owned / total_slices rounded to a
\* whole number of micro-units
Share(amount, slices_owned, total_slices) ==
    RoundHalfEven(amount * slices_owned, total_slices)

-----------------------------------------------------------------------------
(* Token metadata behind rwa_contract.tokenURI(id) and fetch_loan_metadata *)

\* meta.get("name", "").replace("Loan ", "") or str(event.id)
MetaLoanId(id) == IF id = 1 THEN "LN-1" ELSE IF id = 2 THEN "2" ELSE "3"

\* int(get_trait(attrs, "Total Slices", 100))
MetaTotalSlices(id) == IF id = 1 THEN 100 ELSE IF id = 3 THEN 0 ELSE DEFAULT_TOTAL_SLICES

\* get_trait(attrs, "Metadata Hash", ""): create_loan_metadata writes no such trait
MetaHashTrait(id) == ""

\* get_clean_cid(rwa_contract.tokenURI(event.id))
TokenCid(id) == IF id = 1 THEN "cid1" ELSE IF id = 2 THEN "cid2" ELSE "cid3"

-----------------------------------------------------------------------------
(* The feed *)

Ev(kind, from_, to, id, value, fingerprint) ==
    [event_name |-> kind, from_ |-> from_, to |-> to, id |-> id, value |-> value,
     fingerprint |-> fingerprint]

MintEv(to, id, value) == Ev("TransferSingle", ZERO_ADDRESS, to, id, value, "")
TransferEv(from_, to, id, value) == Ev("TransferSingle", from_, to, id, value, "")
DividendEv(id, amount) == Ev("DividendsDeposited", "", "", id, amount, "")
TokenCreatedEv(id, fp) == Ev("TokenCreated", "", "", id, 0, fp)

\* The transactions that can be on chain: hash -> receipt (status, events)
Hashes == {"0xa1", "0xb2", "0xc3", "0xd4", "0xe5", "0xf6", "0x07"}

Receipt(h) ==
    CASE h = "0xa1" -> [status |-> 1, events |-> <<MintEv("0xaa", 1, 40)>>]
      [] h = "0xb2" -> [status |-> 1, events |-> <<MintEv("0xbb", 1, 60)>>]
      [] h = "0xc3" -> [status |-> 1, events |-> <<TransferEv("0xaa", "0xbb", 1, 50)>>]
      [] h = "0xd4" -> [status |-> 1, events |-> <<DividendEv(1, 1000000)>>]
      [] h = "0xe5" -> [status |-> 1, events |-> <<MintEv("0xaa", 1, 40),
                                                   TransferEv("0xaa", "0xbb", 2, 10)>>]
      [] h = "0xf6" -> [status |-> 1, events |-> <<TokenCreatedEv(1, "f1")>>]
      [] h = "0x07" -> [status |-> 0, events |-> <<MintEv("0xbb", 1, 60)>>]
      \* the wallets spelt as the node's decoder returns them (EIP-55 mixed case)
      [] h = "0xa8" -> [status |-> 1, events |-> <<MintEv("0xAa", 1, 40)>>]
      [] h = "0xc8" -> [status |-> 1, events |-> <<TransferEv("0xAa", "0xBb", 1, 10)>>]
      \* a mint to the treasury, a token whose document says Total Slices 0, and
      \* deposits for a token without a Loan (2) and for the token of 0 slices (3)
      [] h = "0xa9" -> [status |-> 1, events |-> <<MintEv("0xad", 1, 30)>>]
      [] h = "0xa3" -> [status |-> 1, events |-> <<MintEv("0xaa", 3, 40)>>]
      [] h = "0xd9" -> [status |-> 1, events |-> <<DividendEv(2, 1000000),
                                                   DividendEv(3, 1000000)>>]
      \* deposits of 1 and of 3 micro-units for token 1
      [] h = "0xd1" -> [status |-> 1, events |-> <<DividendEv(1, 1)>>]
      [] h = "0xd3" -> [status |-> 1, events |-> <<DividendEv(1, 3)>>]
      \* the treasury hands 10 of the slices it was minted to an investor
      [] h = "0xc9" -> [status |-> 1, events |-> <<TransferEv("0xad", "0xaa", 1, 10)>>]

Tx(h, b) == [hash |-> h, blockNumber |-> b]

RECURSIVE BlockAt(_, _)
BlockAt(inc, i) == IF i = 1 THEN 1 ELSE BlockAt(inc, i - 1) + inc[i]

\* Feeds as the explorer returns them with sort=asc: ascending blocks; a transaction that
\* is delivered more than once is delivered with the same block, its copies adjacent.
FeedsOver(H, n) ==
    { [i \in 1..n |-> Tx(hs[i], BlockAt(inc, i))] :
        <<hs, inc>> \in { p \in [1..n -> H] \X [1..n -> {0, 1}] :
            \A i \in 1..n : \A j \in 1..n :
                (i < j /\ p[1][i] = p[1][j]) =>
                    /\ p[1][i + 1] = p[1][i]
                    /\ BlockAt(p[2], i) = BlockAt(p[2], j) } }

FeedsOfLen(n) == FeedsOver(Hashes, n)

Feeds == UNION { FeedsOfLen(n) : n \in 1..MaxTxs }

\* Feeds whose events spell one wallet in more than one letter case
WalletHashes == {"0xa1", "0xa8", "0xc8", "0x07"}

WalletFeeds == UNION { FeedsOver(WalletHashes, n) : n \in 1..MaxTxs }

\* Feeds with mints to the treasury and deposits that are skipped
EventHashes == {"0xa1", "0xb2", "0xc3", "0xa9", "0xa3", "0xd4", "0xd9"}

EventFeeds == UNION { FeedsOver(EventHashes, n) : n \in 1..MaxTxs }

\* Feeds of token creations, mints and the treasury's transfers
TokenHashes == {"0xa1", "0xa3", "0xf6", "0xa9", "0xc9"}

TokenFeeds == UNION { FeedsOver(TokenHashes, n) : n \in 1..MaxTxs }

\* Feeds of dividend deposits of small and of large amounts
ShareHashes == {"0xd1", "0xd3", "0xd4"}

ShareFeeds == UNION { FeedsOver(ShareHashes, n) : n \in 1..MaxShareTxs }

\* params: startblock = state.last_synced_block + 1
StartBlockInclusive(lsb) == lsb
StartBlockFromZero(lsb) == 0
StartBlock(lsb) == lsb + 1

\* data.get("result", []) for module=account, action=txlist, startblock, sort=asc
TxList(feed, from) == SelectSeq(feed, LAMBDA t : t.blockNumber >= from)
-----------------------------------------------------------------------------
(* The ledger: the rows of Loan, Investor, InvestorPosition and CashflowHistory *)

Ledger(l, i, p, c) == [loans |-> l, investors |-> i, positions |-> p, cashflows |-> c]

EmptyLedger == Ledger(<<>>, {}, <<>>, <<>>)

\* What one event did: the ledger it leaves committed, whether it raised, and the
\* <<tx_hash, position pk>> pairs whose balance_due it credited
Outcome(db, raised, credits) == [db |-> db, raised |-> raised, credits |-> credits]

\* the elements of a finite set, in some order
RECURSIVE SetToSeq(_)
SetToSeq(S) == IF S = {} THEN <<>> ELSE LET x == CHOOSE x \in S : TRUE
                                        IN  <<x>> \o SetToSeq(S \ {x})

Min(S) == CHOOSE x \in S : \A y \in S : x <= y

\* Loan.objects.filter(token_id=...)
LoansByToken(db, id) == { k \in 1..Len(db.loans) : db.loans[k].token_id = id }

\* Loan.objects.filter(loan_id=...)
LoansById(db, loan_id) == { k \in 1..Len(db.loans) : db.loans[k].loan_id = loan_id }

\* InvestorPosition.objects.filter(investor=..., loan=...)
PositionOf(ps, wallet, loan) ==
    { k \in 1..Len(ps) : ps[k].investor = wallet /\ ps[k].loan = loan }

\* the position's slices_owned set to delta
AddSlicesOverwriting(ps, wallet, loan, delta) ==
    LET found == PositionOf(ps, wallet, loan)
    IN  IF found = {}
        THEN Append(ps, [investor |-> wallet, loan |-> loan,
                         slices_owned |-> delta, balance_due |-> 0])
        ELSE LET k == Min(found)
             IN  [ps EXCEPT ![k].slices_owned = delta]

\* pos, _ = InvestorPosition.objects.get_or_create(investor, loan, defaults={"slices_owned": 0})
\* pos.slices_owned += delta; pos.save()
AddSlices(ps, wallet, loan, delta) ==
    LET found == PositionOf(ps, wallet, loan)
    IN  IF found = {}
        THEN Append(ps, [investor |-> wallet, loan |-> loan,
                         slices_owned |-> delta, balance_due |-> 0])
        ELSE LET k == Min(found)
             IN  [ps EXCEPT ![k].slices_owned = @ + delta]

\* update_or_create that could insert a provisional Loan when none has the token id
ApplyTokenCreatedProvisional(db, ev) ==
    LET found == LoansByToken(db, ev.id)
    IN  IF found = {}
        THEN Outcome([db EXCEPT !.loans = Append(@,
                         [loan_id |-> "", token_id |-> ev.id,
                          total_slices |-> DEFAULT_TOTAL_SLICES,
                          metadata_hash |-> ev.fingerprint, metadata_cid |-> "",
                          tokenized |-> TRUE])],
                     FALSE, {})
        ELSE IF Cardinality(found) # 1
        THEN Outcome(db, TRUE, {})
        ELSE LET k == Min(found)
             IN  Outcome([db EXCEPT !.loans[k].tokenized = TRUE,
                                    !.loans[k].metadata_hash = ev.fingerprint],
                         FALSE, {})

\* LOGIC A: Loan.objects.update_or_create(token_id=event.id, defaults={...}).
\* With no Loan of that token_id the INSERT carries no principal, annual_interest_rate,
\* term_months, maturity_date or monthly_payment, which are NOT NULL columns without a
\* default: IntegrityError.  With several: MultipleObjectsReturned.
ApplyTokenCreated(db, ev) ==
    LET found == LoansByToken(db, ev.id)
    IN  IF Cardinality(found) # 1
        THEN Outcome(db, TRUE, {})
        ELSE LET k == Min(found)
             IN  Outcome([db EXCEPT !.loans[k].tokenized = TRUE,
                                    !.loans[k].metadata_hash = ev.fingerprint],
                         FALSE, {})

\* The Loan values the mint branch writes
MintDefaults(ev) ==
    [loan_id |-> MetaLoanId(ev.id), token_id |-> ev.id,
     total_slices |-> MetaTotalSlices(ev.id), metadata_hash |-> MetaHashTrait(ev.id),
     metadata_cid |-> TokenCid(ev.id), tokenized |-> TRUE]

\* the mint case with no test of the recipient against ADMIN_ADDRESSES
ApplyMintToAnyone(db, ev, fetched) ==
    IF ~fetched THEN Outcome(db, TRUE, {})
    ELSE
    LET found == LoansById(db, MetaLoanId(ev.id))
        k == IF found = {} THEN Len(db.loans) + 1 ELSE Min(found)
        loans2 == IF found = {} THEN Append(db.loans, MintDefaults(ev))
                  ELSE [db.loans EXCEPT ![k] = MintDefaults(ev)]
    IN  Outcome([db EXCEPT !.loans = loans2,
                           !.investors = @ \cup {ev.to},
                           !.positions = AddSlices(@, ev.to, k, ev.value)],
                FALSE, {})

\* THE MINT CASE.  fetched: did fetch_loan_metadata return a document (it raises
\* RuntimeError when every gateway fails, before anything is written).
ApplyMint(db, ev, fetched) ==
    IF ~fetched THEN Outcome(db, TRUE, {})
    ELSE
    LET found == LoansById(db, MetaLoanId(ev.id))
        k == IF found = {} THEN Len(db.loans) + 1 ELSE Min(found)
        loans2 == IF found = {} THEN Append(db.loans, MintDefaults(ev))
                  ELSE [db.loans EXCEPT ![k] = MintDefaults(ev)]
    IN  IF ev.to \in ADMIN_ADDRESSES
        THEN Outcome([db EXCEPT !.loans = loans2], FALSE, {})
        ELSE Outcome([db EXCEPT !.loans = loans2,
                                !.investors = @ \cup {ev.to},
                                !.positions = AddSlices(@, ev.to, k, ev.value)],
                     FALSE, {})

\* THE SECONDARY TRANSFER CASE.  Loan.objects.get raises unless exactly one Loan has the
\* token_id; InvestorPosition.objects.get raises when the sender holds no position, and
\* the atomic block then rolls the sender's Investor row back.
ApplyTransfer(db, ev) ==
    LET found == LoansByToken(db, ev.id)
    IN  IF Cardinality(found) # 1 THEN Outcome(db, TRUE, {})
        ELSE
        LET k == Min(found)
            sender == Lower(ev.from_)
            receiver == Lower(ev.to)
            sender_pos == PositionOf(db.positions, sender, k)
        IN  IF sender_pos = {} THEN Outcome(db, TRUE, {})
            ELSE
            LET ps1 == [db.positions EXCEPT ![Min(sender_pos)].slices_owned = @ - ev.value]
                ps2 == AddSlices(ps1, receiver, k, ev.value)
            IN  Outcome([db EXCEPT !.investors = @ \cup {sender, receiver},
                                   !.positions = ps2],
                        FALSE, {})

\* CashflowHistory.objects.update_or_create(tx_hash=unique_id, defaults={...})
Upsert(cf, h, row) ==
    [x \in DOMAIN cf \cup {h} |-> IF x = h THEN row ELSE cf[x]]

\* for pos in InvestorPosition.objects.filter(loan=loan): ... from row k on.
\* acc = [positions, cashflows, credits]
RECURSIVE YieldLoopCreditingAll(_, _, _, _, _, _)
RECURSIVE YieldLoop(_, _, _, _, _, _)
\* the loop crediting every position of the loan, whether or not the row was created
YieldLoopCreditingAll(acc, k, h, loan, amount, total_slices) ==
    IF k > Len(acc.positions) THEN acc
    ELSE IF acc.positions[k].loan # loan
    THEN YieldLoopCreditingAll(acc, k + 1, h, loan, amount, total_slices)
    ELSE
    LET pos == acc.positions[k]
        share == Share(amount, pos.slices_owned, total_slices)
        row == [loan |-> loan, investor |-> pos.investor, amount |-> share]
    IN  YieldLoopCreditingAll(
            [positions |-> [acc.positions EXCEPT ![k].balance_due = @ + share],
             cashflows |-> Upsert(acc.cashflows, h, row),
             credits |-> acc.credits \cup {<<h, k>>}],
            k + 1, h, loan, amount, total_slices)

YieldLoop(acc, k, h, loan, amount, total_slices) ==
    IF k > Len(acc.positions) THEN acc
    ELSE IF acc.positions[k].loan # loan
    THEN YieldLoop(acc, k + 1, h, loan, amount, total_slices)
    ELSE
    LET pos == acc.positions[k]
        share == Share(amount, pos.slices_owned, total_slices)
        created == h \notin DOMAIN acc.cashflows
        row == [loan |-> loan, investor |-> pos.investor, amount |-> share]
    IN  YieldLoop(
            [positions |-> IF created
                           THEN [acc.positions EXCEPT ![k].balance_due = @ + share]
                           ELSE acc.positions,
             cashflows |-> Upsert(acc.cashflows, h, row),
             credits |-> IF created THEN acc.credits \cup {<<h, k>>} ELSE acc.credits],
            k + 1, h, loan, amount, total_slices)

\* the yield branch with no test of total_slices: the division by 0 raises
ApplyDividendUnguarded(db, h, ev) ==
    LET found == LoansByToken(db, ev.id)
    IN  IF found = {} THEN Outcome(db, TRUE, {})
        ELSE
        LET k == Min(found)
            total_slices == db.loans[k].total_slices
        IN  IF total_slices <= 0 THEN Outcome(db, TRUE, {})
            ELSE
            LET acc == YieldLoop([positions |-> db.positions, cashflows |-> db.cashflows,
                                  credits |-> {}],
                                 1, h, k, ev.value, total_slices)
            IN  Outcome([db EXCEPT !.positions = acc.positions,
                                   !.cashflows = acc.cashflows],
                        FALSE, acc.credits)

\* LOGIC C: YIELD.  The event is skipped when no Loan has the token id or the first one
\* has total_slices <= 0.
ApplyDividend(db, h, ev) ==
    LET found == LoansByToken(db, ev.id)
    IN  IF found = {} THEN Outcome(db, FALSE, {})
        ELSE
        LET k == Min(found)
            total_slices == db.loans[k].total_slices
        IN  IF total_slices <= 0 THEN Outcome(db, FALSE, {})
            ELSE
            LET acc == YieldLoop([positions |-> db.positions, cashflows |-> db.cashflows,
                                  credits |-> {}],
                                 1, h, k, ev.value, total_slices)
            IN  Outcome([db EXCEPT !.positions = acc.positions,
                                   !.cashflows = acc.cashflows],
                        FALSE, acc.credits)

\* The body of `for event in receipt.events` for one event of transaction h
ApplyEvent(db, h, ev, fetched) ==
    IF ev.event_name = "TokenCreated" THEN ApplyTokenCreated(db, ev)
    ELSE IF ev.event_name = "TransferSingle"
    THEN IF ev.from_ = ZERO_ADDRESS THEN ApplyMint(db, ev, fetched)
         ELSE ApplyTransfer(db, ev)
    ELSE IF ev.event_name = "DividendsDeposited" THEN ApplyDividend(db, h, ev)
    ELSE Outcome(db, FALSE, {})

IsMint(ev) == ev.event_name = "TransferSingle" /\ ev.from_ = ZERO_ADDRESS
-----------------------------------------------------------------------------
(* Reconciling a whole feed in one uninterrupted call, as a function *)

\* `for event in receipt.events` from event e on; stops at the first exception
RECURSIVE ApplyEvents(_, _, _, _)
ApplyEvents(db, h, events, e) ==
    IF e > Len(events) THEN Outcome(db, FALSE, {})
    ELSE LET out == ApplyEvent(db, h, events[e], TRUE)
         IN  IF out.raised THEN out ELSE ApplyEvents(out.db, h, events, e + 1)

\* `for tx in tx_list` from entry t on
RECURSIVE Reconcile(_, _, _)
Reconcile(db, feed, t) ==
    IF t > Len(feed) THEN db
    ELSE IF Receipt(feed[t].hash).status # 1 THEN Reconcile(db, feed, t + 1)
    ELSE LET out == ApplyEvents(db, feed[t].hash, Receipt(feed[t].hash).events, 1)
         IN  IF out.raised THEN out.db ELSE Reconcile(out.db, feed, t + 1)

\* the feed with every transaction delivered once: later copies of a hash dropped
RECURSIVE Dedup(_)
Dedup(feed) ==
    IF feed = <<>> THEN <<>>
    ELSE LET front == Dedup(SubSeq(feed, 1, Len(feed) - 1))
             last == feed[Len(feed)]
         IN  IF \E i \in 1..Len(front) : front[i].hash = last.hash
             THEN front ELSE Append(front, last)

\* investor, loan and slices_owned of every position
SlicesView(ps) ==
    [k \in 1..Len(ps) |-> <<ps[k].investor, ps[k].loan, ps[k].slices_owned>>]

\* sum of slices_owned over the positions 1..k that are on the loan
RECURSIVE SlicesOnLoan(_, _, _)
SlicesOnLoan(ps, loan, k) ==
    IF k = 0 THEN 0
    ELSE SlicesOnLoan(ps, loan, k - 1)
         + (IF ps[k].loan = loan THEN ps[k].slices_owned ELSE 0)

\* how many times position k has been credited for transaction h
CreditCount(log, h, k) == Cardinality({ i \in 1..Len(log) : log[i] = <<h, k>> })

-----------------------------------------------------------------------------
(* State *)

DB == Ledger(loans, investors, positions, cashflows)

SetDB(db) ==
    /\ loans' = db.loans
    /\ investors' = db.investors
    /\ positions' = db.positions
    /\ cashflows' = db.cashflows

\* the list walked from its end
CurTxBackwards == tx_list[Len(tx_list) + 1 - txIdx]

\* where the loops of the running call stand
CurTx == tx_list[txIdx]
CurEvents == Receipt(CurTx.hash).events
\* the feed entry that tx_list[txIdx] is (the list is a suffix of the feed)
CurFeedIndex == Len(chain) - Len(tx_list) + txIdx

Init ==
    /\ chain \in Feeds
    /\ loans = <<>>
    /\ investors = {}
    /\ positions = <<>>
    /\ cashflows = <<>>
    /\ last_synced_block = 0
    /\ pc = "idle"
    /\ optReset = FALSE
    /\ startblock = 0
    /\ tx_list = <<>>
    /\ txIdx = 0
    /\ evIdx = 0
    /\ lastResult = "none"
    /\ runs = 0
    /\ startCursor = 0
    /\ snap = EmptyLedger
    /\ processed = {}
    /\ credited = <<>>

\* The call is over (it returned, raised or died), and the command's process with it
Return(how) ==
    /\ pc' = "idle"
    /\ lastResult' = how
    /\ optReset' = FALSE
    /\ startblock' = 0
    /\ tx_list' = <<>>
    /\ txIdx' = 0
    /\ evIdx' = 0
    /\ startCursor' = 0
    /\ snap' = EmptyLedger

\* StartRun with a cursor that is moved on before the list is fetched
StartRunCursorFirst(reset, fetch) ==
    /\ pc = "idle"
    /\ runs < MaxRuns
    /\ IF fetch = "fail"
       THEN /\ Return("fetch_error")
            /\ runs' = runs
            /\ last_synced_block' = StartBlock(last_synced_block)
       ELSE IF TxList(chain, StartBlock(last_synced_block)) = <<>>
       THEN /\ Return("no_new")
            /\ runs' = runs
            /\ last_synced_block' = StartBlock(last_synced_block)
       ELSE /\ pc' = "run"
            /\ runs' = runs + 1
            /\ optReset' = reset
            /\ startblock' = StartBlock(last_synced_block)
            /\ tx_list' = TxList(chain, StartBlock(last_synced_block))
            /\ txIdx' = 1
            /\ evIdx' = 1
            /\ startCursor' = last_synced_block
            /\ snap' = DB
            /\ lastResult' = "none"
            /\ last_synced_block' = last_synced_block
    /\ UNCHANGED <<chain, loans, investors, positions, cashflows, processed, credited>>

\* python manage.py sync_chain [--reset]: handle() never reads options['reset']; it calls
\* sync_blockchain_events.apply(), which reads the cursor and fetches the list.
\* fetch: "ok", or "fail" when requests.get / response.json raises.  The explorer
\* answers status "0" (No transactions found) when the list is empty.
StartRun(reset, fetch) ==
    /\ pc = "idle"
    /\ runs < MaxRuns
    /\ IF fetch = "fail"
       THEN Return("fetch_error") /\ runs' = runs
       ELSE IF TxList(chain, StartBlock(last_synced_block)) = <<>>
       THEN Return("no_new") /\ runs' = runs
       ELSE /\ pc' = "run"
            /\ runs' = runs + 1
            /\ optReset' = reset
            /\ startblock' = StartBlock(last_synced_block)
            /\ tx_list' = TxList(chain, StartBlock(last_synced_block))
            /\ txIdx' = 1
            /\ evIdx' = 1
            /\ startCursor' = last_synced_block
            /\ snap' = DB
            /\ lastResult' = "none"
    /\ UNCHANGED <<chain, loans, investors, positions, cashflows, last_synced_block,
                   processed, credited>>

\* The end of one iteration of `for tx in tx_list`: on to the next transaction, or return
NextTx(db) ==
    IF txIdx < Len(tx_list)
    THEN /\ txIdx' = txIdx + 1
         /\ evIdx' = 1
         /\ snap' = db
         /\ UNCHANGED <<pc, lastResult, optReset, startblock, tx_list, startCursor>>
    ELSE Return("processed")

\* One event of the current transaction.  An exception leaves the task; nothing undoes
\* what earlier events of the transaction committed.
ApplyStep(fetched) ==
    /\ pc = "run"
    /\ Receipt(CurTx.hash).status = 1
    /\ evIdx <= Len(CurEvents)
    /\ fetched \/ IsMint(CurEvents[evIdx])
    /\ LET out == ApplyEvent(DB, CurTx.hash, CurEvents[evIdx], fetched)
       IN  /\ SetDB(out.db)
           /\ credited' = credited \o SetToSeq(out.credits)
           /\ IF out.raised
              THEN Return("error")
              ELSE /\ evIdx' = evIdx + 1
                   /\ UNCHANGED <<pc, lastResult, optReset, startblock, tx_list,
                                  txIdx, startCursor, snap>>
    /\ UNCHANGED <<chain, last_synced_block, runs, processed>>

\* Save progress block-by-block: state.last_synced_block = int(tx['blockNumber'])
SaveProgress ==
    /\ pc = "run"
    /\ Receipt(CurTx.hash).status = 1
    /\ evIdx = Len(CurEvents) + 1
    /\ last_synced_block' = CurTx.blockNumber
    /\ processed' = processed \cup {CurFeedIndex}
    /\ NextTx(DB)
    /\ UNCHANGED <<chain, loans, investors, positions, cashflows, runs, credited>>

\* a skip of a failed transaction that saved the transaction's block as progress
SkipFailedTxSavingProgress ==
    /\ pc = "run"
    /\ Receipt(CurTx.hash).status # 1
    /\ last_synced_block' = CurTx.blockNumber
    /\ NextTx(DB)
    /\ UNCHANGED <<chain, loans, investors, positions, cashflows, runs, processed,
                   credited>>

\* if receipt.status != 1: continue
SkipFailedTx ==
    /\ pc = "run"
    /\ Receipt(CurTx.hash).status # 1
    /\ NextTx(DB)
    /\ UNCHANGED <<chain, loans, investors, positions, cashflows, last_synced_block,
                   runs, processed, credited>>

\* The worker process dies; what was committed stays
Crash ==
    /\ pc = "run"
    /\ Return("crash")
    /\ UNCHANGED <<chain, loans, investors, positions, cashflows, last_synced_block,
                   runs, processed, credited>>

Next ==
    \/ \E reset \in BOOLEAN : \E fetch \in {"ok", "fail"} : StartRun(reset, fetch)
    \/ \E fetched \in BOOLEAN : ApplyStep(fetched)
    \/ SaveProgress
    \/ SkipFailedTx
    \/ Crash

Spec == Init /\ [][Next]_vars

\* The same reconciler on the feeds of WalletFeeds
InitWallets ==
    /\ chain \in WalletFeeds
    /\ loans = <<>>
    /\ investors = {}
    /\ positions = <<>>
    /\ cashflows = <<>>
    /\ last_synced_block = 0
    /\ pc = "idle"
    /\ optReset = FALSE
    /\ startblock = 0
    /\ tx_list = <<>>
    /\ txIdx = 0
    /\ evIdx = 0
    /\ lastResult = "none"
    /\ runs = 0
    /\ startCursor = 0
    /\ snap = EmptyLedger
    /\ processed = {}
    /\ credited = <<>>

SpecWallets == InitWallets /\ [][Next]_vars

\* The same reconciler on the feeds of EventFeeds, its calls running to their end
InitEvents ==
    /\ chain \in EventFeeds
    /\ loans = <<>>
    /\ investors = {}
    /\ positions = <<>>
    /\ cashflows = <<>>
    /\ last_synced_block = 0
    /\ pc = "idle"
    /\ optReset = FALSE
    /\ startblock = 0
    /\ tx_list = <<>>
    /\ txIdx = 0
    /\ evIdx = 0
    /\ lastResult = "none"
    /\ runs = 0
    /\ startCursor = 0
    /\ snap = EmptyLedger
    /\ processed = {}
    /\ credited = <<>>

NextEvents ==
    \/ \E fetch \in {"ok", "fail"} : StartRun(FALSE, fetch)
    \/ \E fetched \in BOOLEAN : ApplyStep(fetched)
    \/ SaveProgress

SpecEvents == InitEvents /\ [][NextEvents]_vars

\* The same reconciler on the feeds of TokenFeeds
InitTokens ==
    /\ chain \in TokenFeeds
    /\ loans = <<>>
    /\ investors = {}
    /\ positions = <<>>
    /\ cashflows = <<>>
    /\ last_synced_block = 0
    /\ pc = "idle"
    /\ optReset = FALSE
    /\ startblock = 0
    /\ tx_list = <<>>
    /\ txIdx = 0
    /\ evIdx = 0
    /\ lastResult = "none"
    /\ runs = 0
    /\ startCursor = 0
    /\ snap = EmptyLedger
    /\ processed = {}
    /\ credited = <<>>

SpecTokens == InitTokens /\ [][NextEvents]_vars

\* The reconciler run again and again on one feed.  No worker dies; a fetch that fails
\* does not fail for ever.
LiveHashes == {"0xa1", "0xb2", "0xc3", "0x07"}

LiveFeeds == UNION { FeedsOver(LiveHashes, n) : n \in 1..MaxTxs }

InitLive ==
    /\ chain \in LiveFeeds
    /\ loans = <<>>
    /\ investors = {}
    /\ positions = <<>>
    /\ cashflows = <<>>
    /\ last_synced_block = 0
    /\ pc = "idle"
    /\ optReset = FALSE
    /\ startblock = 0
    /\ tx_list = <<>>
    /\ txIdx = 0
    /\ evIdx = 0
    /\ lastResult = "none"
    /\ runs = 0
    /\ startCursor = 0
    /\ snap = EmptyLedger
    /\ processed = {}
    /\ credited = <<>>

\* sync_blockchain_events.apply() once more, however many calls there have been
LiveStart(fetch) ==
    /\ pc = "idle"
    /\ IF fetch = "fail"
       THEN Return("fetch_error")
       ELSE IF TxList(chain, StartBlock(last_synced_block)) = <<>>
       THEN Return("no_new")
       ELSE /\ pc' = "run"
            /\ optReset' = FALSE
            /\ startblock' = StartBlock(last_synced_block)
            /\ tx_list' = TxList(chain, StartBlock(last_synced_block))
            /\ txIdx' = 1
            /\ evIdx' = 1
            /\ startCursor' = last_synced_block
            /\ snap' = DB
            /\ lastResult' = "none"
    /\ UNCHANGED <<chain, loans, investors, positions, cashflows, last_synced_block,
                   runs, processed, credited>>

NextLive ==
    \/ \E fetch \in {"ok", "fail"} : LiveStart(fetch)
    \/ \E fetched \in BOOLEAN : ApplyStep(fetched)
    \/ SaveProgress
    \/ SkipFailedTx

\* the task is called again and again, a call that has started goes on, and the
\* explorer and the gateways answer in the end
SpecLive ==
    /\ InitLive
    /\ [][NextLive]_vars
    /\ WF_vars(LiveStart("ok"))
    /\ SF_vars(ApplyStep(TRUE))
    /\ WF_vars(SaveProgress)
    /\ WF_vars(SkipFailedTx)

\* The yield branch on a loan whose slices are split among its holders in every way
\* that mints within total_slices can leave
ShareTotals == {3, 100}

SliceChoices == {1, 2, 50, 100}

HolderWallet(i) == IF i = 1 THEN "0xaa" ELSE IF i = 2 THEN "0xbb" ELSE "0xcc"

ShareLoan(total) ==
    [loan_id |-> "LN-1", token_id |-> 1, total_slices |-> total,
     metadata_hash |-> "", metadata_cid |-> TokenCid(1), tokenized |-> TRUE]

Splits(total) ==
    { ps \in UNION { [1..n -> [slices_owned : SliceChoices, loan : {1},
                               investor : {"0xaa", "0xbb", "0xcc"},
                               balance_due : {0}]] : n \in 1..MaxHolders } :
        /\ \A i \in 1..Len(ps) : ps[i].investor = HolderWallet(i)
        /\ SlicesOnLoan(ps, 1, Len(ps)) <= total }

InitShares ==
    /\ chain \in ShareFeeds
    /\ \E total \in ShareTotals :
           /\ loans = <<ShareLoan(total)>>
           /\ positions \in Splits(total)
    /\ investors = { positions[i].investor : i \in 1..Len(positions) }
    /\ cashflows = <<>>
    /\ last_synced_block = 0
    /\ pc = "idle"
    /\ optReset = FALSE
    /\ startblock = 0
    /\ tx_list = <<>>
    /\ txIdx = 0
    /\ evIdx = 0
    /\ lastResult = "none"
    /\ runs = 0
    /\ startCursor = 0
    /\ snap = EmptyLedger
    /\ processed = {}
    /\ credited = <<>>

NextShares ==
    \/ \E fetch \in {"ok", "fail"} : StartRun(FALSE, fetch)
    \/ ApplyStep(TRUE)
    \/ SaveProgress

SpecShares == InitShares /\ [][NextShares]_vars

-----------------------------------------------------------------------------
(* Two invocations of sync_blockchain_events at once: a Celery worker's and the          *)
(* sync_chain command's, or two workers'.  Nothing in the task takes a lock, so each     *)
(* invocation has its own SyncState object, list and loop position; pc, startblock,      *)
(* tx_list, txIdx and startCursor hold one value per invocation here, and processed      *)
(* holds <<invocation, feed entry>> pairs.  One step is one iteration of                 *)
(* `for tx in tx_list`.                                                                  *)

Workers == {1, 2}

OverlapHashes == {"0xa1", "0xb2", "0xc3", "0x07"}

OverlapFeeds == UNION { FeedsOver(OverlapHashes, n) : n \in 1..MaxOverlapTxs }

InitOverlap ==
    /\ chain \in OverlapFeeds
    /\ loans = <<>>
    /\ investors = {}
    /\ positions = <<>>
    /\ cashflows = <<>>
    /\ last_synced_block = 0
    /\ pc = [w \in Workers |-> "idle"]
    /\ optReset = FALSE
    /\ startblock = [w \in Workers |-> 0]
    /\ tx_list = [w \in Workers |-> <<>>]
    /\ txIdx = [w \in Workers |-> 0]
    /\ evIdx = 0
    /\ lastResult = "none"
    /\ runs = 0
    /\ startCursor = [w \in Workers |-> 0]
    /\ snap = EmptyLedger
    /\ processed = {}
    /\ credited = <<>>

\* Lines 35-62 for invocation w: read the cursor, fetch the list
OverlapStart(w) ==
    /\ pc[w] = "idle"
    /\ LET list == TxList(chain, StartBlock(last_synced_block))
       IN  /\ pc' = [pc EXCEPT ![w] = IF list = <<>> THEN "done" ELSE "run"]
           /\ startblock' = [startblock EXCEPT ![w] = StartBlock(last_synced_block)]
           /\ tx_list' = [tx_list EXCEPT ![w] = list]
           /\ txIdx' = [txIdx EXCEPT ![w] = 1]
           /\ startCursor' = [startCursor EXCEPT ![w] = last_synced_block]
    /\ runs' = runs + 1
    /\ UNCHANGED <<chain, loans, investors, positions, cashflows, last_synced_block,
                   optReset, evIdx, lastResult, snap, processed, credited>>

\* Lines 68-203 for invocation w: one iteration of `for tx in tx_list`
OverlapProcessTx(w) ==
    /\ pc[w] = "run"
    /\ LET tx == tx_list[w][txIdx[w]]
           out == IF Receipt(tx.hash).status # 1 THEN Outcome(DB, FALSE, {})
                  ELSE ApplyEvents(DB, tx.hash, Receipt(tx.hash).events, 1)
           saved == Receipt(tx.hash).status = 1 /\ ~out.raised
           last == txIdx[w] = Len(tx_list[w])
       IN  /\ SetDB(out.db)
           /\ last_synced_block' = IF saved THEN tx.blockNumber ELSE last_synced_block
           /\ processed' = IF saved
                           THEN processed \cup {<<w, Len(chain) - Len(tx_list[w]) + txIdx[w]>>}
                           ELSE processed
           /\ pc' = [pc EXCEPT ![w] = IF out.raised \/ last THEN "done" ELSE "run"]
           /\ txIdx' = [txIdx EXCEPT ![w] = IF out.raised \/ last THEN @ ELSE @ + 1]
    /\ UNCHANGED <<chain, optReset, startblock, tx_list, evIdx, lastResult, runs,
                   startCursor, snap, credited>>

NextOverlap ==
    \/ \E w \in Workers : OverlapStart(w)
    \/ \E w \in Workers : OverlapProcessTx(w)

SpecOverlap == InitOverlap /\ [][NextOverlap]_vars

-----------------------------------------------------------------------------
(* The SPV console's write paths on its own ledger (spv_admin/app/views.py):             *)
(* spv_distribute_payment and spv_create_position, for a loan without tranches.          *)
(* One step is one request.  chain holds the transactions the console has sent,          *)
(* runs counts the requests, lastResult describes the latest one.                        *)

\* The loan of the console: principal 100.01 at 5.05 % over a term of 1 month, so that
\* monthly_interest = principal * (annual_interest_rate / 100) / term_months = 5.050505,
\* in micro-units.  With total_slices = 100 every Decimal quotient below is exact.
AdminLoan ==
    [loan_id |-> "LN-1", token_id |-> 1, total_slices |-> 100, metadata_hash |-> "",
     metadata_cid |-> "cid1", tokenized |-> TRUE, monthly_interest |-> 5050505]

AdminWallets == {"0xaa", "0xbb"}

\* request.POST["slices"]
AdminSlices == {0, 10, 20, 60}

\* pos.balance_due += share; pos.save(): share = num / den micro-units is not rounded
\* before it is added; the column keeps 6 decimals and the sum is rounded (half to even)
\* when it is written
SaveBalance(balance_due, num, den) == RoundHalfEven(balance_due * den + num, den)

\* CashflowHistory.objects.create(..., tx_hash=tx_hash) on a table whose tx_hash is a
\* unique key: a second row with the same tx_hash raises IntegrityError
InsertCashflow(cf, h, row) ==
    IF h \in DOMAIN cf THEN [cashflows |-> cf, raised |-> TRUE]
    ELSE [cashflows |-> Upsert(cf, h, row), raised |-> FALSE]

\* for pos in positions: ... from row k on.  acc = [positions, cashflows, raised]
RECURSIVE DistributeLoop(_, _, _, _, _, _)
DistributeLoop(acc, k, h, loan, total_interest, total_slices) ==
    IF acc.raised \/ k > Len(acc.positions) THEN acc
    ELSE IF acc.positions[k].loan # loan
    THEN DistributeLoop(acc, k + 1, h, loan, total_interest, total_slices)
    ELSE
    LET pos == acc.positions[k]
        num == pos.slices_owned * total_interest
        row == [loan |-> loan, investor |-> pos.investor,
                amount |-> 10000 * RoundHalfEven(num, total_slices * 10000)]
        ins == InsertCashflow(acc.cashflows, h, row)
    IN  DistributeLoop(
            [positions |-> [acc.positions EXCEPT
                               ![k].balance_due = SaveBalance(@, num, total_slices)],
             cashflows |-> ins.cashflows,
             raised |-> ins.raised],
            k + 1, h, loan, total_interest, total_slices)

\* with transaction.atomic(): for pos in positions: ...   An exception rolls all of it back.
DistributeLocal(db, loan, h) ==
    LET acc == DistributeLoop([positions |-> db.positions, cashflows |-> db.cashflows,
                               raised |-> FALSE],
                              1, h, loan, db.loans[loan].monthly_interest,
                              db.loans[loan].total_slices)
    IN  IF acc.raised THEN Outcome(db, TRUE, {})
        ELSE Outcome([db EXCEPT !.positions = acc.positions, !.cashflows = acc.cashflows],
                     FALSE, {})

\* the database updated whatever the chain call did
DistributeOutcomeLocalFirst(db, loan, h, chain_ok) == DistributeLocal(db, loan, h)

\* deposit_dividends_onchain(...), then the atomic block: a failed chain call raises and
\* the block is never entered
DistributeOutcome(db, loan, h, chain_ok) ==
    IF chain_ok THEN DistributeLocal(db, loan, h) ELSE Outcome(db, TRUE, {})

\* the position overwritten with the requested slices
CreatePositionOutcomeOverwriting(ps, wallet, loan, slices, chain_ok) ==
    IF ~chain_ok THEN ps
    ELSE LET found == PositionOf(ps, wallet, loan)
         IN  IF found = {} THEN AddSlices(ps, wallet, loan, slices)
             ELSE [ps EXCEPT ![Min(found)].slices_owned = slices]

\* transfer_rwa_token(...), then get_or_create and pos.slices_owned += slices_to_add
CreatePositionOutcome(ps, wallet, loan, slices, chain_ok) ==
    IF chain_ok THEN AddSlices(ps, wallet, loan, slices) ELSE ps

AdminResult(op, loan, investor, slices, chain_ok, ok) ==
    [op |-> op, loan |-> loan, investor |-> investor, slices |-> slices,
     chain_ok |-> chain_ok, ok |-> ok]

InitAdmin ==
    /\ chain = <<>>
    /\ loans = <<AdminLoan>>
    /\ investors = AdminWallets
    /\ positions = <<>>
    /\ cashflows = <<>>
    /\ last_synced_block = 0
    /\ pc = "admin"
    /\ optReset = FALSE
    /\ startblock = 0
    /\ tx_list = <<>>
    /\ txIdx = 0
    /\ evIdx = 0
    /\ lastResult = AdminResult("none", 0, "", 0, FALSE, FALSE)
    /\ runs = 0
    /\ startCursor = 0
    /\ snap = EmptyLedger
    /\ processed = {}
    /\ credited = <<>>

\* the transaction a chain call that succeeded has added; its txn_hash is its number
SendTx(chain_ok) ==
    chain' = IF chain_ok THEN Append(chain, Tx(Len(chain) + 1, Len(chain) + 1)) ELSE chain

\* POST spv_distribute_payment(loan_id)
DistributePayment(loan, chain_ok) ==
    /\ pc = "admin"
    /\ runs < MaxAdminCalls
    /\ LET out == DistributeOutcome(DB, loan, Len(chain) + 1, chain_ok)
       IN  /\ SetDB(out.db)
           /\ lastResult' = AdminResult("distribute", loan, "", 0, chain_ok, ~out.raised)
    /\ SendTx(chain_ok)
    /\ runs' = runs + 1
    /\ UNCHANGED <<last_synced_block, pc, optReset, startblock, tx_list, txIdx, evIdx,
                   startCursor, snap, processed, credited>>

\* POST spv_create_position(loan_id) with investor and slices.  slices <= 0 is refused
\* before the chain is called.
CreatePosition(loan, wallet, slices, chain_ok) ==
    /\ pc = "admin"
    /\ runs < MaxAdminCalls
    /\ slices <= 0 => ~chain_ok
    /\ positions' = IF slices <= 0 THEN positions
                    ELSE CreatePositionOutcome(positions, wallet, loan, slices, chain_ok)
    /\ lastResult' = AdminResult("create_position", loan, wallet, slices, chain_ok,
                                  slices > 0 /\ chain_ok)
    /\ SendTx(chain_ok)
    /\ runs' = runs + 1
    /\ UNCHANGED <<loans, investors, cashflows, last_synced_block, pc, optReset,
                   startblock, tx_list, txIdx, evIdx, startCursor, snap, processed,
                   credited>>

NextAdmin ==
    \/ \E loan \in 1..Len(loans) : \E chain_ok \in BOOLEAN : DistributePayment(loan, chain_ok)
    \/ \E loan \in 1..Len(loans) : \E wallet \in investors : \E slices \in AdminSlices :
           \E chain_ok \in BOOLEAN : CreatePosition(loan, wallet, slices, chain_ok)

SpecAdmin == InitAdmin /\ [][NextAdmin]_vars

-----------------------------------------------------------------------------
(* The metadata commitment: create_loan_metadata, calculate_metadata_hash,               *)
(* hybrid_ipfs_upload, spv_tokenize_loan, generate_rwa_ids and Loan.check_integrity.     *)
(* A document is a sequence of members <<key, type, payload>> in insertion order, type   *)
(* "str" or "int"; the payload of a string is the number that determines its text (the   *)
(* cents of a "{:.2f}" amount, the number of a loan).  The attributes list is flattened  *)
(* into the members.  A JSON text is a sequence of <<key, token kind, payload>>.         *)
(* One step is one request.  loans are the console's Loan rows, chain the tokens         *)
(* created on chain, snap the texts that the content store holds, runs the requests      *)
(* served, lastResult the latest one.                                                    *)

\* json.dumps(obj, cls=DecimalEncoder): str -> string token, int -> number token, in the
\* order of the members (create_loan_metadata puts no Decimal and no float in a document)
Dumps(doc) ==
    [i \in 1..Len(doc) |->
        <<doc[i][1], IF doc[i][2] = "str" THEN "string" ELSE "number", doc[i][3]>>]

\* resp.json(): string token -> str, number token without a fraction -> int
Loads(text) ==
    [i \in 1..Len(text) |->
        <<text[i][1], IF text[i][2] = "string" THEN "str" ELSE "int", text[i][3]>>]

\* the keys a document can have, in the order of sort_keys=True (code point order)
SortedKeys ==
    <<"Principal", "Senior Yield", "Structure", "Term Months", "Total Slices", "name">>

RECURSIVE SortKeysFrom(_, _)
SortKeysFrom(doc, j) ==
    IF j > Len(SortedKeys) THEN <<>>
    ELSE SelectSeq(doc, LAMBDA m : m[1] = SortedKeys[j]) \o SortKeysFrom(doc, j + 1)

\* hashlib.sha256(content).hexdigest(): the digest determines the content
Sha256(content) == <<"sha256", content>>

\* the digest of the members in the order they come in
CalculateMetadataHashUnsorted(doc) == Sha256(Dumps(doc))

\* calculate_metadata_hash: json.dumps(metadata_dict, sort_keys=True, cls=DecimalEncoder,
\* separators=(',', ':')), then SHA-256
CalculateMetadataHash(doc) == Sha256(Dumps(SortKeysFrom(doc, 1)))

\* create_loan_metadata(loan)
CreateLoanMetadata(loan) ==
    << <<"name", "str", loan.no>>,
       <<"Principal", "str", loan.principal>>,
       <<"Term Months", "int", loan.term_months>>,
       <<"Total Slices", "int", loan.total_slices>> >>
    \o (IF loan.tranches
        THEN << <<"Structure", "str", 0>>,
                <<"Senior Yield", "int", loan.senior_coupon_pct \div 100>> >>
        ELSE <<>>)

Reverse(seq) == [i \in 1..Len(seq) |-> seq[Len(seq) + 1 - i]]

\* What the content store holds after hybrid_ipfs_upload(metadata): the local node keeps
\* the string it is given; the pinning service keeps pinataContent in a serialization
\* of its own, whose member order need not be the sender's
StoredText(doc, backend) ==
    IF backend = "local" THEN Dumps(doc) ELSE Reverse(Dumps(doc))

\* added_res['Hash'] / response.json()['IpfsHash']: the content's address
CidOf(text) == <<"Qm", text>>

\* the text the store returns for a cid
FetchText(store, cid) == CHOOSE text \in store : CidOf(text) = cid

\* generate_rwa_ids() at time millis with random.randint(100, 999) = entropy:
\* int(f"{millis}{entropy}") and the suffixes 01, 02 (entropy has 3 digits)
GenerateRwaIds(millis, entropy) ==
    LET parent_id == millis * 1000 + entropy
    IN  [parent_id |-> parent_id, senior_id |-> parent_id * 100 + 1,
         junior_id |-> parent_id * 100 + 2]

\* int(time.time() * 1000) of the calls (shortened to 2 digits) and the random draws
Millis == {17, 18}
Entropies == {100, 999}

\* a Loan of the console that has not been tokenized; amounts in cents
ConsoleLoan(no, loan_id, tranches, principal, term_months) ==
    [no |-> no, loan_id |-> loan_id, tranches |-> tranches, principal |-> principal,
     term_months |-> term_months, total_slices |-> 100, senior_coupon_pct |-> 850,
     tokenized |-> FALSE, token_contract |-> "", token_id |-> 0, senior_id |-> 0,
     junior_id |-> 0, metadata_cid |-> <<>>, metadata_hash |-> <<>>]

MASTER_CONTRACT == "0xc0"

\* the fields of the loan set before the chain is called
TokenizeOutcomeLocalFirst(loan, cid, ids, chain_ok) ==
    [loan EXCEPT !.tokenized = TRUE,
                 !.token_contract = MASTER_CONTRACT,
                 !.token_id = ids.parent_id,
                 !.senior_id = IF loan.tranches THEN ids.senior_id ELSE 0,
                 !.junior_id = IF loan.tranches THEN ids.junior_id ELSE 0,
                 !.metadata_cid = cid,
                 !.metadata_hash = CalculateMetadataHash(CreateLoanMetadata(loan))]

\* spv_tokenize_loan after the upload: the chain call, and only when it has returned
\* `loan.tokenized = True ... loan.save()`
TokenizeOutcome(loan, cid, ids, chain_ok) ==
    IF ~chain_ok THEN loan
    ELSE [loan EXCEPT !.tokenized = TRUE,
                      !.token_contract = MASTER_CONTRACT,
                      !.token_id = ids.parent_id,
                      !.senior_id = IF loan.tranches THEN ids.senior_id ELSE 0,
                      !.junior_id = IF loan.tranches THEN ids.junior_id ELSE 0,
                      !.metadata_cid = cid,
                      !.metadata_hash = CalculateMetadataHash(CreateLoanMetadata(loan))]

\* the token that create_token_onchain / create_tranche_token_onchain has created
OnChainToken(loan, k, cid, ids) ==
    [token_id |-> IF loan.tranches THEN ids.parent_id ELSE k * ids.parent_id,
     uri |-> cid,
     fingerprint |-> CalculateMetadataHash(CreateLoanMetadata(loan))]

\* what requests.get(ipfs.io/ipfs/<metadata_cid>) answers: the text pinned under the
\* cid, another text (its Principal altered; an empty object when nothing is pinned
\* under the cid), or a failure
Responses == {"stored", "other", "fail"}

Altered(text) ==
    [i \in 1..Len(text) |->
        IF text[i][1] = "Principal" THEN <<text[i][1], text[i][2], text[i][3] + 1>>
        ELSE text[i]]

Pinned(store, cid) == \E text \in store : CidOf(text) = cid

ResponseText(store, cid, resp) ==
    IF ~Pinned(store, cid) THEN <<>>
    ELSE IF resp = "stored" THEN FetchText(store, cid)
    ELSE Altered(FetchText(store, cid))

\* check_integrity that takes a failed fetch for a match
CheckIntegrityLenient(loan, store, resp) ==
    IF resp = "fail" THEN TRUE
    ELSE CalculateMetadataHash(Loads(ResponseText(store, loan.metadata_cid, resp)))
             = loan.metadata_hash

\* Loan.check_integrity: any exception gives False
CheckIntegrity(loan, store, resp) ==
    IF resp = "fail" THEN FALSE
    ELSE CalculateMetadataHash(Loads(ResponseText(store, loan.metadata_cid, resp)))
             = loan.metadata_hash

TokenizeResult(op, loan, upload, chain_ok, resp, ids, ok) ==
    [op |-> op, loan |-> loan, upload |-> upload, chain_ok |-> chain_ok, resp |-> resp,
     ids |-> ids, ok |-> ok]

NoIds == [parent_id |-> 0, senior_id |-> 0, junior_id |-> 0]

InitTokenize ==
    /\ chain = <<>>
    /\ loans \in { <<ConsoleLoan(1, "LN-1", t1, 1000000, 12),
                      ConsoleLoan(2, "LN-2", t2, 1250050, 6)>> : t1 \in BOOLEAN, t2 \in BOOLEAN }
    /\ investors = {}
    /\ positions = <<>>
    /\ cashflows = <<>>
    /\ last_synced_block = 0
    /\ pc = "tokenize"
    /\ optReset = FALSE
    /\ startblock = 0
    /\ tx_list = <<>>
    /\ txIdx = 0
    /\ evIdx = 0
    /\ lastResult = TokenizeResult("none", 0, "", FALSE, "", NoIds, FALSE)
    /\ runs = 0
    /\ startCursor = 0
    /\ snap = {}
    /\ processed = {}
    /\ credited = <<>>

\* the test of loan.tokenized left out
AlreadyTokenizedIgnored(loan) == FALSE

\* if loan.tokenized: messages.info(...); return redirect(...)
AlreadyTokenized(loan) == loan.tokenized

\* POST spv_tokenize_loan(loan_id).  upload: the backend that accepted the document, or
\* "fail"; the chain is not called when the upload failed.
TokenizeLoan(k, upload, chain_ok, millis, entropy) ==
    /\ pc = "tokenize"
    /\ runs < MaxTokenizeCalls
    /\ upload = "fail" => ~chain_ok
    /\ runs' = runs + 1
    /\ IF AlreadyTokenized(loans[k])
       THEN /\ lastResult' = TokenizeResult("tokenize", k, "", FALSE, "", NoIds, FALSE)
            /\ UNCHANGED <<loans, chain, snap>>
       ELSE IF upload = "fail"
       THEN /\ lastResult' = TokenizeResult("tokenize", k, upload, FALSE, "", NoIds, FALSE)
            /\ UNCHANGED <<loans, chain, snap>>
       ELSE LET text == StoredText(CreateLoanMetadata(loans[k]), upload)
                cid == CidOf(text)
                ids == GenerateRwaIds(millis, entropy)
            IN  /\ snap' = snap \cup {text}
                /\ chain' = IF chain_ok
                             THEN Append(chain, OnChainToken(loans[k], k, cid, ids))
                             ELSE chain
                /\ loans' = [loans EXCEPT ![k] = TokenizeOutcome(@, cid, ids, chain_ok)]
                /\ lastResult' = TokenizeResult("tokenize", k, upload, chain_ok, "", ids,
                                                  chain_ok)
    /\ UNCHANGED <<investors, positions, cashflows, last_synced_block, pc, optReset,
                   startblock, tx_list, txIdx, evIdx, startCursor, processed, credited>>

\* reading loan.check_integrity
ReadCheckIntegrity(k, resp) ==
    /\ pc = "tokenize"
    /\ runs < MaxTokenizeCalls
    /\ resp = "stored" => Pinned(snap, loans[k].metadata_cid)
    /\ runs' = runs + 1
    /\ lastResult' = TokenizeResult("check_integrity", k, "", FALSE, resp, NoIds,
                                      CheckIntegrity(loans[k], snap, resp))
    /\ UNCHANGED <<chain, loans, investors, positions, cashflows, last_synced_block, pc,
                   optReset, startblock, tx_list, txIdx, evIdx, startCursor, snap,
                   processed, credited>>

NextTokenize ==
    \/ \E k \in 1..Len(loans) : \E upload \in {"local", "pinata", "fail"} :
           \E chain_ok \in BOOLEAN : \E millis \in Millis : \E entropy \in Entropies :
               TokenizeLoan(k, upload, chain_ok, millis, entropy)
    \/ \E k \in 1..Len(loans) : \E resp \in Responses : ReadCheckIntegrity(k, resp)

SpecTokenize == InitTokenize /\ [][NextTokenize]_vars

-----------------------------------------------------------------------------
(* fetch_loan_metadata(cid) (blockchain/ipfs.py).  tx_list holds what the three          *)
(* gateways will answer to the successive requests, lastResult what the call returned.   *)

\* @retry(stop=stop_after_attempt(3), wait=wait_fixed(1))
STOP_AFTER_ATTEMPT == 3

\* One HTTP request: "ok" is a 2xx answer with the document as its JSON body,
\* "error_json" an answer with an error status and a JSON body, "fail" a connection
\* error, a timeout or a body that is no JSON
HttpOutcomes == {"ok", "error_json", "fail"}

GatewayPlans ==
    [dedicated : [1..STOP_AFTER_ATTEMPT -> HttpOutcomes],
     public : HttpOutcomes,
     fallback : [1..STOP_AFTER_ATTEMPT -> HttpOutcomes]]

\* A function under @retry whose body ends with resp.raise_for_status(); resp.json():
\* the number of the first attempt that returns, 0 when STOP_AFTER_ATTEMPT attempts
\* have raised (RetryError)
RECURSIVE Retried(_, _)
Retried(answers, n) ==
    IF n > STOP_AFTER_ATTEMPT THEN 0
    ELSE IF answers[n] = "ok" THEN n
    ELSE Retried(answers, n + 1)

FetchResult(source, body, raised, attempts) ==
    [op |-> "fetch", source |-> source, body |-> body, raised |-> raised,
     attempts |-> attempts]

\* fetch_loan_metadata: the dedicated gateway, then one plain GET of the public
\* gateway whose status is not looked at, then ipfs.io
FetchLoanMetadata(plan) ==
    LET d == Retried(plan.dedicated, 1)
        f == Retried(plan.fallback, 1)
    IN  IF d > 0 THEN FetchResult("dedicated", "document", FALSE, d)
        ELSE IF plan.public = "ok"
        THEN FetchResult("public", "document", FALSE, STOP_AFTER_ATTEMPT + 1)
        ELSE IF plan.public = "error_json"
        THEN FetchResult("public", "error_body", FALSE, STOP_AFTER_ATTEMPT + 1)
        ELSE IF f > 0
        THEN FetchResult("fallback", "document", FALSE, STOP_AFTER_ATTEMPT + 1 + f)
        ELSE FetchResult("none", "none", TRUE, 2 * STOP_AFTER_ATTEMPT + 1)

InitFetch ==
    /\ chain = <<>>
    /\ loans = <<>>
    /\ investors = {}
    /\ positions = <<>>
    /\ cashflows = <<>>
    /\ last_synced_block = 0
    /\ pc = "fetch"
    /\ optReset = FALSE
    /\ startblock = 0
    /\ tx_list \in GatewayPlans
    /\ txIdx = 0
    /\ evIdx = 0
    /\ lastResult = [op |-> "none", source |-> "none", body |-> "none", raised |-> FALSE,
                     attempts |-> 0]
    /\ runs = 0
    /\ startCursor = 0
    /\ snap = EmptyLedger
    /\ processed = {}
    /\ credited = <<>>

FetchMetadata ==
    /\ pc = "fetch"
    /\ runs = 0
    /\ runs' = 1
    /\ lastResult' = FetchLoanMetadata(tx_list)
    /\ UNCHANGED <<chain, loans, investors, positions, cashflows, last_synced_block, pc,
                   optReset, startblock, tx_list, txIdx, evIdx, startCursor, snap,
                   processed, credited>>

NextFetch == FetchMetadata

SpecFetch == InitFetch /\ [][NextFetch]_vars
-----------------------------------------------------------------------------
(* spv_distribute_payment for a loan with tranches.  The same variables: chain is   *)
(* the list of the transactions the deployer has sent (approve, depositDividends), *)
(* pc is "tranche", runs counts the requests and lastResult is the last of them.    *)

\* a tokenized loan with a senior and a junior tranche
TrancheLoan ==
    [loan_id |-> "LN-1", token_id |-> GenerateRwaIds(17, 100).parent_id,
     total_slices |-> 100, metadata_hash |-> "", metadata_cid |-> "cid1",
     tokenized |-> TRUE, monthly_interest |-> 5050505, tranches |-> TRUE,
     senior_id |-> GenerateRwaIds(17, 100).senior_id,
     junior_id |-> GenerateRwaIds(17, 100).junior_id]

\* what c.sibling(target_id) and c.tokenSupply(target_id) answer
Siblings == {0, TrancheLoan.junior_id}

Supplies == {0, 60}

ChainCall(call, id) == [call |-> call, id |-> id]

\* the deposit with the approval sent before the pre-flight checks
DepositTrancheDividendApprovingFirst(target_id, sibling_id, total_supply, deposit_ok) ==
    IF sibling_id = 0 \/ total_supply = 0 \/ ~deposit_ok
    THEN [writes |-> <<ChainCall("approve", 0)>>, raised |-> TRUE]
    ELSE [writes |-> <<ChainCall("approve", 0),
                       ChainCall("depositDividends", target_id)>>,
          raised |-> FALSE]

\* deposit_tranche_dividend_onchain: the transactions it sends and whether it raises.
\* balanceOf, sibling and tokenSupply are reads; deposit_ok: depositDividends does not
\* revert.
DepositTrancheDividend(target_id, sibling_id, total_supply, deposit_ok) ==
    IF sibling_id = 0 THEN [writes |-> <<>>, raised |-> TRUE]
    ELSE IF total_supply = 0 THEN [writes |-> <<>>, raised |-> TRUE]
    ELSE IF ~deposit_ok
    THEN [writes |-> <<ChainCall("approve", 0)>>, raised |-> TRUE]
    ELSE [writes |-> <<ChainCall("approve", 0),
                       ChainCall("depositDividends", target_id)>>,
          raised |-> FALSE]

TrancheResult(op, loan, sibling, supply, deposit_ok, ok) ==
    [op |-> op, loan |-> loan, sibling |-> sibling, supply |-> supply,
     deposit_ok |-> deposit_ok, ok |-> ok]

\* the positions the console has sold on the loan before the requests
TranchePositions ==
    { <<>>,
      <<[slices_owned |-> 60, loan |-> 1, investor |-> "0xaa", balance_due |-> 0]>>,
      <<[slices_owned |-> 33, loan |-> 1, investor |-> "0xbb", balance_due |-> 0]>>,
      <<[slices_owned |-> 60, loan |-> 1, investor |-> "0xaa", balance_due |-> 0],
        [slices_owned |-> 33, loan |-> 1, investor |-> "0xbb", balance_due |-> 0]>> }

InitTranche ==
    /\ chain = <<>>
    /\ loans = <<TrancheLoan>>
    /\ investors = AdminWallets
    /\ positions \in TranchePositions
    /\ cashflows = <<>>
    /\ last_synced_block = 0
    /\ pc = "tranche"
    /\ optReset = FALSE
    /\ startblock = 0
    /\ tx_list = <<>>
    /\ txIdx = 0
    /\ evIdx = 0
    /\ lastResult = TrancheResult("none", 0, 0, 0, FALSE, FALSE)
    /\ runs = 0
    /\ startCursor = 0
    /\ snap = EmptyLedger
    /\ processed = {}
    /\ credited = <<>>

\* POST spv_distribute_payment(loan_id), the branch `if loan.tranches`: the deposit
\* with target_id=loan.senior_id, then the atomic block under the receipt's txn_hash
\* (here the number of the depositDividends transaction)
DistributePaymentTranche(loan, sibling, supply, deposit_ok) ==
    /\ pc = "tranche"
    /\ runs < MaxTrancheCalls
    /\ loans[loan].tranches
    /\ LET dep == DepositTrancheDividend(loans[loan].senior_id, sibling, supply,
                                         deposit_ok)
           out == IF dep.raised THEN Outcome(DB, TRUE, {})
                  ELSE DistributeLocal(DB, loan, Len(chain) + Len(dep.writes))
       IN  /\ chain' = chain \o dep.writes
           /\ SetDB(out.db)
           /\ lastResult' = TrancheResult("distribute", loan, sibling, supply,
                                          deposit_ok, ~out.raised)
    /\ runs' = runs + 1
    /\ UNCHANGED <<last_synced_block, pc, optReset, startblock, tx_list, txIdx, evIdx,
                   startCursor, snap, processed, credited>>

NextTranche ==
    \E loan \in 1..Len(loans) : \E sibling \in Siblings : \E supply \in Supplies :
        \E deposit_ok \in BOOLEAN : DistributePaymentTranche(loan, sibling, supply, deposit_ok)

SpecTranche == InitTranche /\ [][NextTranche]_vars

-----------------------------------------------------------------------------
(* manage.py poll_chain_events.  The same variables: chain is the list of the      *)
(* DividendsDeposited logs of the contract, last_synced_block is the content of    *)
(* last_block.txt (NoFile when the file does not exist), startblock and startCursor *)
(* are from_block and to_block, tx_list is the answer of get_logs, txIdx the log    *)
(* and evIdx the position at hand, credited the history of the credits.             *)

NoFile == 0 - 1

PollHashes == {"0xd4", "0xd3", "0xd9"}

\* logs in block order, no log twice
PollFeeds ==
    { f \in UNION { FeedsOver(PollHashes, n) : n \in 1..MaxShareTxs } :
        \A i \in 1..Len(f) : \A j \in 1..Len(f) : f[i].hash = f[j].hash => i = j }

\* evt['args'] of the log
PollLog(h) == Receipt(h).events[1]

\* latest = w3.eth.block_number
Latest == chain[Len(chain)].blockNumber

\* last_block: the file's content, max(0, latest - 1000) when there is no file
LastBlock(latest, file) ==
    IF file = NoFile THEN (IF latest - 1000 > 0 THEN latest - 1000 ELSE 0) ELSE file

\* w3.eth.get_logs({"fromBlock": from_block, "toBlock": to_block, ...})
GetLogs(feed, from_block, to_block) ==
    SelectSeq(feed, LAMBDA tx : tx.blockNumber >= from_block /\ tx.blockNumber <= to_block)

\* total_slices = Decimal(loan.total_slices or 100)
PollTotalSlices(total_slices) == IF total_slices = 0 THEN 100 ELSE total_slices

InitPoll ==
    /\ chain \in PollFeeds
    /\ loans = <<ShareLoan(100)>>
    /\ positions \in Splits(100)
    /\ investors = { positions[i].investor : i \in 1..Len(positions) }
    /\ cashflows = <<>>
    /\ last_synced_block = NoFile
    /\ pc = "idle"
    /\ optReset = FALSE
    /\ startblock = 0
    /\ tx_list = <<>>
    /\ txIdx = 0
    /\ evIdx = 0
    /\ lastResult = "none"
    /\ runs = 0
    /\ startCursor = 0
    /\ snap = EmptyLedger
    /\ processed = {}
    /\ credited = <<>>

\* handle() up to the answer of get_logs.  fetch: "ok", or "fail" when get_logs raises.
PollStart(fetch) ==
    /\ pc = "idle"
    /\ runs < MaxPolls
    /\ LET from_block == LastBlock(Latest, last_synced_block) + 1
           to_block == Latest
       IN  IF from_block > to_block
           THEN Return("no_new") /\ runs' = runs
           ELSE IF fetch = "fail"
           THEN Return("fetch_error") /\ runs' = runs
           ELSE /\ pc' = "poll"
                /\ runs' = runs + 1
                /\ startblock' = from_block
                /\ startCursor' = to_block
                /\ tx_list' = GetLogs(chain, from_block, to_block)
                /\ txIdx' = 1
                /\ evIdx' = 1
                /\ lastResult' = "none"
                /\ UNCHANGED <<optReset, snap>>
    /\ UNCHANGED <<chain, loans, investors, positions, cashflows, last_synced_block,
                   processed, credited>>

\* the log at hand and the Loan rows with its token id
PollLoans == LoansByToken(DB, PollLog(tx_list[txIdx].hash).id)

\* Loan.objects.get(token_id=int(tokenId)) found no row: continue.  More than one row
\* raises MultipleObjectsReturned, which ends the command.
PollSkipLog ==
    /\ pc = "poll"
    /\ txIdx <= Len(tx_list)
    /\ Cardinality(PollLoans) # 1
    /\ IF PollLoans = {}
       THEN /\ txIdx' = txIdx + 1
            /\ evIdx' = 1
            /\ UNCHANGED <<pc, lastResult, optReset, startblock, tx_list, startCursor,
                           snap>>
       ELSE Return("error")
    /\ UNCHANGED <<chain, loans, investors, positions, cashflows, last_synced_block,
                   runs, processed, credited>>

\* one iteration of `for pos in positions`: pos.balance_due = pos.balance_due + share;
\* pos.save().  Every save is committed on its own.
PollCredit ==
    /\ pc = "poll"
    /\ txIdx <= Len(tx_list)
    /\ Cardinality(PollLoans) = 1
    /\ evIdx <= Len(positions)
    /\ LET loan == Min(PollLoans)
           log == PollLog(tx_list[txIdx].hash)
           total_slices == PollTotalSlices(loans[loan].total_slices)
       IN  IF positions[evIdx].loan = loan
           THEN /\ positions' = [positions EXCEPT ![evIdx].balance_due =
                                     SaveBalance(@, positions[evIdx].slices_owned * log.value,
                                                 total_slices)]
                /\ credited' = Append(credited, <<tx_list[txIdx].hash, evIdx>>)
           ELSE UNCHANGED <<positions, credited>>
    /\ evIdx' = evIdx + 1
    /\ UNCHANGED <<chain, loans, investors, cashflows, last_synced_block, pc, optReset,
                   startblock, tx_list, txIdx, lastResult, runs, startCursor, snap,
                   processed>>

\* the end of the loop over the positions: on to the next log
PollNextLog ==
    /\ pc = "poll"
    /\ txIdx <= Len(tx_list)
    /\ Cardinality(PollLoans) = 1
    /\ evIdx > Len(positions)
    /\ txIdx' = txIdx + 1
    /\ evIdx' = 1
    /\ UNCHANGED <<chain, loans, investors, positions, cashflows, last_synced_block, pc,
                   optReset, startblock, tx_list, lastResult, runs, startCursor, snap,
                   processed, credited>>

\* Save last processed block: f.write(str(to_block))
PollFinish ==
    /\ pc = "poll"
    /\ txIdx > Len(tx_list)
    /\ last_synced_block' = startCursor
    /\ Return("processed")
    /\ UNCHANGED <<chain, loans, investors, positions, cashflows, runs, processed,
                   credited>>

\* the command is interrupted; what was saved stays, the file is not written
PollInterrupt ==
    /\ pc = "poll"
    /\ Return("crash")
    /\ UNCHANGED <<chain, loans, investors, positions, cashflows, last_synced_block,
                   runs, processed, credited>>

NextPoll ==
    \/ \E fetch \in {"ok", "fail"} : PollStart(fetch)
    \/ PollSkipLog
    \/ PollCredit
    \/ PollNextLog
    \/ PollFinish
    \/ PollInterrupt

SpecPoll == InitPoll /\ [][NextPoll]_vars

-----------------------------------------------------------------------------
(* The step that applies the current event *)

AtEvent == pc = "run" /\ Receipt(CurTx.hash).status = 1 /\ evIdx <= Len(CurEvents)
CurEvent == CurEvents[evIdx]
Applied == evIdx' = evIdx + 1

\* a DividendsDeposited event is at hand whose Loan exists with total_slices > 0
AtDividend ==
    /\ AtEvent
    /\ CurEvent.event_name = "DividendsDeposited"
    /\ LoansByToken(DB, CurEvent.id) # {}
    /\ loans[Min(LoansByToken(DB, CurEvent.id))].total_slices > 0

DividendLoan == Min(LoansByToken(DB, CurEvent.id))

\* the step is the loop body run on the current event: it went on to the next event, or
\* it raised
EventStep == Applied \/ lastResult' = "error"

IsTransfer(ev) == ev.event_name = "TransferSingle" /\ ev.from_ # ZERO_ADDRESS

\* the call is cut short (exception or crash) between two events of one transaction
CutBetweenEvents ==
    /\ AtEvent
    /\ evIdx > 1
    /\ pc' = "idle"
    /\ lastResult' \in {"crash", "error"}

-----------------------------------------------------------------------------
(* Claims *)

\* C1: applying a DividendsDeposited transaction not seen before, for a loan with
\* total_slices > 0, increases the balance_due of EVERY position on the loan by
\* round(amount / 10^6 * slices_owned / total_slices, 6).
C1_EveryPositionCredited ==
    [][ (AtDividend /\ CurTx.hash \notin DOMAIN cashflows /\ Applied) =>
          \A k \in 1..Len(positions) :
              positions[k].loan = DividendLoan =>
                  positions'[k].balance_due =
                      positions[k].balance_due
                      + Share(CurEvent.value, positions[k].slices_owned,
                              loans[DividendLoan].total_slices) ]_vars

\* C2: applying the same DividendsDeposited transaction again leaves one CashflowHistory
\* row for it, changes no balance_due, and every position on the loan has been credited
\* for it exactly once in total.
C2_ReplayCreditedOnce ==
    [][ (AtDividend /\ CurTx.hash \in DOMAIN cashflows /\ Applied) =>
          /\ DOMAIN cashflows' = DOMAIN cashflows
          /\ \A k \in 1..Len(positions) :
                 positions'[k].balance_due = positions[k].balance_due
          /\ \A k \in 1..Len(positions) :
                 positions[k].loan = DividendLoan =>
                     CreditCount(credited', CurTx.hash, k) = 1 ]_vars

\* C3: for every loan the slices_owned of its positions sum to at most total_slices.
C3_SlicesWithinTotal ==
    \A l \in 1..Len(loans) :
        SlicesOnLoan(positions, l, Len(positions)) <= loans[l].total_slices

\* C4: no position ever has negative slices_owned (a transfer of more than the sender
\* holds fails and changes nothing).
C4_NoNegativeSlices ==
    \A k \in 1..Len(positions) : positions[k].slices_owned >= 0

\* C5: a feed that delivers a transaction twice leaves the same slices_owned as the
\* feed that delivers it once (checked when the first call has processed the whole feed).
C5_DuplicateDeliveryHarmless ==
    (runs = 1 /\ lastResult = "processed") =>
        SlicesView(positions) =
            SlicesView(Reconcile(EmptyLedger, Dedup(chain), 1).positions)

\* C6: when a call is cut short between two events of one transaction, by an exception
\* or a crash, nothing the transaction's earlier events wrote stays committed.
C6_TransactionAtomic ==
    [][ CutBetweenEvents => Ledger(loans', investors', positions', cashflows') = snap ]_vars

\* C7: a call requests the transactions from last_synced_block + 1 on; it lists no
\* transaction of a block at or below the persisted cursor, and applies none whose
\* progress was saved before.
C7_ResumesAfterCursor ==
    pc = "run" =>
        /\ startblock = startCursor + 1
        /\ \A j \in 1..Len(tx_list) : tx_list[j].blockNumber > startCursor
        /\ \A j \in txIdx..Len(tx_list) :
               (Len(chain) - Len(tx_list) + j) \notin processed

\* C8: after a crash no successful transaction is lost: each one that has not been
\* processed (in any of its copies) is at or after the block the next call starts from.
C8_NothingLostAfterCrash ==
    (pc = "idle" /\ lastResult = "crash") =>
        \A i \in 1..Len(chain) :
            ( /\ Receipt(chain[i].hash).status = 1
              /\ \A j \in processed : chain[j].hash # chain[i].hash )
            => chain[i].blockNumber >= StartBlock(last_synced_block)

\* C9: last_synced_block never decreases.
C9_CursorMonotone == [][last_synced_block' >= last_synced_block]_vars

\* C10: a sync_chain --reset call starts from a cursor of 0, so that it requests the
\* whole history.
C10_ResetRewinds ==
    (pc = "run" /\ optReset) => (startCursor = 0 /\ startblock = StartBlock(0))

\* C12: a call whose fetch of the transaction list fails (an exception, or an answer
\* whose status is not "1") returns without moving last_synced_block and without
\* touching the ledger.
C12_FetchFailureChangesNothing ==
    [][ (pc = "idle" /\ pc' = "idle" /\ lastResult' \in {"fetch_error", "no_new"}) =>
          /\ last_synced_block' = last_synced_block
          /\ Ledger(loans', investors', positions', cashflows') = DB ]_vars

\* C19: a secondary TransferSingle for a token id that no Loan has ends the call with an
\* error, creates or changes no Investor and no InvestorPosition, and leaves the cursor
\* below the block of its transaction.
C19_MissingLoanIsFatal ==
    [][ (AtEvent /\ IsTransfer(CurEvent) /\ LoansByToken(DB, CurEvent.id) = {} /\ EventStep) =>
          /\ pc' = "idle"
          /\ lastResult' = "error"
          /\ investors' = investors
          /\ positions' = positions
          /\ last_synced_block' < CurTx.blockNumber ]_vars

\* C20: a TokenCreated event leaves a Loan with the event's token id, tokenized and with
\* the event's fingerprint as metadata_hash (the existing row updated in place, or a new
\* row when there was none), and the call goes on.
C20_TokenCreatedUpserts ==
    [][ (AtEvent /\ CurEvent.event_name = "TokenCreated" /\ EventStep) =>
          /\ pc' = "run"
          /\ Applied
          /\ Len(loans') = IF LoansByToken(DB, CurEvent.id) = {}
                            THEN Len(loans) + 1 ELSE Len(loans)
          /\ \E k \in 1..Len(loans') :
                 /\ loans'[k].token_id = CurEvent.id
                 /\ loans'[k].tokenized
                 /\ loans'[k].metadata_hash = CurEvent.fingerprint ]_vars

\* C18: wallets are compared without regard to letter case: no two Investor rows hold
\* addresses that are equal up to case, and a secondary transfer out of a wallet that
\* holds a position on the loan, under any spelling, finds that position.
C18_WalletsNormalized ==
    [][ /\ \A a \in investors' : \A b \in investors' : Lower(a) = Lower(b) => a = b
        /\ ( /\ AtEvent /\ IsTransfer(CurEvent) /\ EventStep
              /\ \E l \in LoansByToken(DB, CurEvent.id) : \E k \in 1..Len(positions) :
                     /\ positions[k].loan = l
                     /\ Lower(positions[k].investor) = Lower(CurEvent.from_) )
            => Applied ]_vars

\* C11: invocations of the reconciler never overlap: at no time are two of them past
\* reading the cursor and not yet finished, and no feed entry is applied by both.
C11_RunsSerialized ==
    /\ ~(pc[1] = "run" /\ pc[2] = "run")
    /\ \A i \in 1..Len(chain) : ~(<<1, i>> \in processed /\ <<2, i>> \in processed)

\* the step is a spv_distribute_payment request / a spv_create_position request
DistributeStep == runs' = runs + 1 /\ lastResult'.op = "distribute"
CreatePositionStep == runs' = runs + 1 /\ lastResult'.op = "create_position"

\* the rows of the loan's positions
PositionsOn(ps, loan) == { k \in 1..Len(ps) : ps[k].loan = loan }

\* slices_owned of the wallet's position on the loan, 0 when it has none
SlicesOf(ps, wallet, loan) ==
    IF PositionOf(ps, wallet, loan) = {} THEN 0
    ELSE ps[Min(PositionOf(ps, wallet, loan))].slices_owned

\* C13: when the on-chain dividend deposit of distribute_payment fails, no balance_due
\* changes and no CashflowHistory row is created.
C13_FailedDepositChangesNothing ==
    [][ (pc = "admin" /\ DistributeStep /\ ~lastResult'.chain_ok) =>
          /\ positions' = positions
          /\ cashflows' = cashflows ]_vars

\* C14: when the on-chain deposit succeeds, every position of the loan, however many
\* there are, has its balance_due raised by its share and one CashflowHistory row per
\* position is added.
C14_EveryPositionPaid ==
    [][ (pc = "admin" /\ DistributeStep /\ lastResult'.chain_ok) =>
          LET loan == lastResult'.loan
          IN  /\ \A k \in PositionsOn(positions, loan) :
                     positions'[k].balance_due =
                         SaveBalance(positions[k].balance_due,
                                     positions[k].slices_owned * loans[loan].monthly_interest,
                                     loans[loan].total_slices)
              /\ Cardinality(DOMAIN cashflows') =
                     Cardinality(DOMAIN cashflows)
                     + Cardinality(PositionsOn(positions, loan)) ]_vars

\* C15: a distribution that commits credits each position with the reconciler's share:
\* total_amount * slices_owned / total_slices rounded to 6 decimals.
C15_SameShareAsReconciler ==
    [][ (pc = "admin" /\ DistributeStep /\ lastResult'.ok) =>
          LET loan == lastResult'.loan
          IN  \A k \in PositionsOn(positions, loan) :
                  positions'[k].balance_due =
                      positions[k].balance_due
                      + Share(loans[loan].monthly_interest, positions[k].slices_owned,
                              loans[loan].total_slices) ]_vars

\* C16: create_investor_position with slices > 0: when the chain transfer fails no
\* position is created or changed; when it succeeds the (investor, loan) position exists
\* once, holds its previous slices_owned plus the requested slices, and no other position
\* changes.
C16_CreatePositionTwoPhase ==
    [][ (pc = "admin" /\ CreatePositionStep /\ lastResult'.slices > 0) =>
          LET r == lastResult'
          IN  IF ~r.chain_ok THEN positions' = positions
              ELSE /\ Cardinality(PositionOf(positions', r.investor, r.loan)) = 1
                   /\ SlicesOf(positions', r.investor, r.loan) =
                          SlicesOf(positions, r.investor, r.loan) + r.slices
                   /\ \A k \in 1..Len(positions) :
                          k \notin PositionOf(positions, r.investor, r.loan) =>
                              positions'[k] = positions[k] ]_vars

\* C17: whatever create_investor_position requests have been served, the slices_owned
\* of a loan's positions sum to at most its total_slices.
C17_AdminKeepsSlicesWithinTotal ==
    pc = "admin" =>
        \A loan \in 1..Len(loans) :
            SlicesOnLoan(positions, loan, Len(positions)) <= loans[loan].total_slices

\* the Loan row that a mint of the token writes
MintLoan(ls, id) == Min({ k \in 1..Len(ls) : ls[k].loan_id = MetaLoanId(id) })

\* C21: a mint whose recipient is one of ADMIN_ADDRESSES creates no Investor and no
\* InvestorPosition and changes no slices_owned.
C21_AdminMintLeavesPositions ==
    [][ (AtEvent /\ IsMint(CurEvent) /\ CurEvent.to \in ADMIN_ADDRESSES /\ EventStep) =>
          /\ investors' = investors
          /\ positions' = positions ]_vars

\* C22: a mint of value v to a recipient that is no admin address leaves exactly one
\* (recipient, loan) position, holding its previous slices_owned (0 when there was none)
\* plus v, and changes no other position.
C22_MintAddsSlices ==
    [][ (AtEvent /\ IsMint(CurEvent) /\ CurEvent.to \notin ADMIN_ADDRESSES /\ Applied) =>
          LET to == CurEvent.to
              l == MintLoan(loans', CurEvent.id)
          IN  /\ Cardinality(PositionOf(positions', to, l)) = 1
              /\ SlicesOf(positions', to, l) = SlicesOf(positions, to, l) + CurEvent.value
              /\ Len(positions') = IF PositionOf(positions, to, l) = {}
                                    THEN Len(positions) + 1 ELSE Len(positions)
              /\ \A k \in 1..Len(positions) :
                     k \notin PositionOf(positions, to, l) => positions'[k] = positions[k] ]_vars

\* C23: a DividendsDeposited event whose token id no Loan has, or whose Loan has
\* total_slices <= 0, creates no CashflowHistory row and changes no balance_due, and
\* the call goes on with the next event.
C23_UnpayableDepositSkipped ==
    [][ ( /\ AtEvent
          /\ CurEvent.event_name = "DividendsDeposited"
          /\ \/ LoansByToken(DB, CurEvent.id) = {}
             \/ loans[Min(LoansByToken(DB, CurEvent.id))].total_slices <= 0
          /\ EventStep ) =>
          /\ Applied
          /\ pc' = "run"
          /\ cashflows' = cashflows
          /\ positions' = positions ]_vars

\* C24: a CashflowHistory row records one distribution to one investor for one loan
\* for good: the row created when a position was credited for a transaction still
\* names that position's investor and loan.
C24_CashflowRowImmutable ==
    \A i \in 1..Len(credited) :
        LET h == credited[i][1]
            k == credited[i][2]
        IN  /\ h \in DOMAIN cashflows
            /\ cashflows[h].investor = positions[k].investor
            /\ cashflows[h].loan = positions[k].loan

\* the ledger after the events of the feed that precede event e of entry t, applied one
\* after the other in feed order
LedgerBefore(feed, t, e) ==
    ApplyEvents(Reconcile(EmptyLedger, SubSeq(feed, 1, t - 1), 1), feed[t].hash,
                SubSeq(Receipt(feed[t].hash).events, 1, e - 1), 1).db

\* C30: within a call the events are applied one after the other in feed order: when
\* the call stands at an event, the ledger (and so the slices_owned a deposit's shares
\* are computed from) is the result of exactly the events that precede it in the feed.
C30_EventsInFeedOrder ==
    (pc = "run" /\ runs = 1) => DB = LedgerBefore(chain, txIdx, evIdx)

\* the step is a spv_tokenize_loan request for a loan not yet tokenized / a read of
\* check_integrity
TokenizeStep ==
    /\ runs' = runs + 1
    /\ lastResult'.op = "tokenize"
    /\ ~loans[lastResult'.loan].tokenized
CheckIntegrityStep == runs' = runs + 1 /\ lastResult'.op = "check_integrity"

\* C25: check_integrity is true exactly when the hash recomputed from the document that
\* was fetched for metadata_cid equals metadata_hash, false when they differ or the
\* fetch fails, and it changes neither metadata_hash nor metadata_cid.
C25_CheckIntegrityReports ==
    [][ (pc = "tokenize" /\ CheckIntegrityStep) =>
          LET r == lastResult'
              loan == loans[r.loan]
          IN  /\ r.resp = "fail" => ~r.ok
              /\ r.resp # "fail" =>
                     (r.ok <=> CalculateMetadataHash(
                                   Loads(ResponseText(snap, loan.metadata_cid, r.resp)))
                               = loan.metadata_hash)
              /\ loan.tokenized => (r.ok <=> r.resp = "stored")
              /\ loans' = loans ]_vars

\* C26: for every loan that tokenize_loan has tokenized, whichever backend took the
\* upload, the hash recomputed from the document stored under metadata_cid is the
\* metadata_hash kept locally and the fingerprint sent on chain.
C26_CommitmentRoundTrips ==
    pc = "tokenize" =>
        \A k \in 1..Len(loans) :
            loans[k].tokenized =>
                /\ Pinned(snap, loans[k].metadata_cid)
                /\ CalculateMetadataHash(Loads(FetchText(snap, loans[k].metadata_cid)))
                       = loans[k].metadata_hash
                /\ \E t \in 1..Len(chain) :
                       /\ chain[t].uri = loans[k].metadata_cid
                       /\ chain[t].fingerprint = loans[k].metadata_hash

\* C28: tokenize_loan changes nothing of the loan when the upload or the on-chain token
\* creation fails; the loan's fields are set, with tokenized = true, only when the
\* chain call has succeeded.
C28_TokenizeAbortsBeforeMutation ==
    [][ (pc = "tokenize" /\ TokenizeStep) =>
          LET r == lastResult'
          IN  /\ (r.upload = "fail" \/ ~r.chain_ok) => loans' = loans
              /\ loans' # loans =>
                     /\ r.chain_ok
                     /\ Len(chain') = Len(chain) + 1
                     /\ loans'[r.loan].tokenized
                     /\ loans'[r.loan].token_id = r.ids.parent_id ]_vars

\* C29: no two calls of generate_rwa_ids return the same parent id, so no two tokenized
\* loans have the same token_id; and a call's senior and junior ids are its parent id
\* followed by 01 and by 02, the three of them distinct.
C29_IdsUnique ==
    pc = "tokenize" =>
        /\ \A i \in 1..Len(loans) : \A j \in 1..Len(loans) :
               (i # j /\ loans[i].tokenized /\ loans[j].tokenized) =>
                   loans[i].token_id # loans[j].token_id
        /\ lastResult.ids # NoIds =>
               /\ lastResult.ids.senior_id = lastResult.ids.parent_id * 100 + 1
               /\ lastResult.ids.junior_id = lastResult.ids.parent_id * 100 + 2
               /\ Cardinality({lastResult.ids.parent_id, lastResult.ids.senior_id,
                                lastResult.ids.junior_id}) = 3

\* the gateway delivers the document within the attempts made of it
Delivers(answers) == \E n \in 1..STOP_AFTER_ATTEMPT : answers[n] = "ok"

\* C27: fetch_loan_metadata returns the document of the first gateway, in the order
\* dedicated, public, fallback, that delivers it; a gateway that fails is passed over
\* for the next; it raises only when all three fail; and it makes at most 3 attempts of
\* each retried gateway.
C27_FirstSuccessWins ==
    (pc = "fetch" /\ lastResult.op = "fetch") =>
        LET plan == tx_list
            first == IF Delivers(plan.dedicated) THEN "dedicated"
                     ELSE IF plan.public = "ok" THEN "public"
                     ELSE IF Delivers(plan.fallback) THEN "fallback"
                     ELSE "none"
        IN  /\ lastResult.raised <=> first = "none"
            /\ lastResult.source = first
            /\ ~lastResult.raised => lastResult.body = "document"
            /\ lastResult.attempts <= 2 * STOP_AFTER_ATTEMPT + 1

\* C31: a loan without tranches that tokenize_loan has tokenized keeps as token_id the
\* id that was passed to createToken on chain for its document, the token that
\* distribute_payment and create_investor_position will address.
C31_LocalTokenIdIsOnChain ==
    pc = "tokenize" =>
        \A k \in 1..Len(loans) :
            (loans[k].tokenized /\ ~loans[k].tranches) =>
                \E t \in 1..Len(chain) :
                    /\ chain[t].uri = loans[k].metadata_cid
                    /\ chain[t].token_id = loans[k].token_id

\* C40: a tokenize_loan request for a loan that is already tokenized uploads nothing,
\* calls no chain function and leaves the loan as it is; so the tokens created on chain
\* are as many as the tokenized loans, one per loan.
C40_TokenizedOnce ==
    [][ (pc = "tokenize" /\ runs' = runs + 1 /\ lastResult'.op = "tokenize") =>
          /\ loans[lastResult'.loan].tokenized =>
                 (loans' = loans /\ chain' = chain /\ snap' = snap)
          /\ Len(chain') = Cardinality({ k \in 1..Len(loans') : loans'[k].tokenized }) ]_vars

\* C32: whatever TokenCreated and mint events have been reconciled, no two Loan rows
\* have the same token_id.
C32_OneLoanPerToken ==
    pc \in {"idle", "run"} =>
        \A i \in 1..Len(loans) : \A j \in 1..Len(loans) :
            loans[i].token_id = loans[j].token_id => i = j

\* C33: a mint of a token whose Loan carries the fingerprint that a TokenCreated event
\* recorded leaves that metadata_hash as it is.
C33_MintKeepsFingerprint ==
    [][ (AtEvent /\ IsMint(CurEvent) /\ Applied) =>
          \A k \in LoansByToken(DB, CurEvent.id) :
              loans[k].metadata_hash # "" =>
                  loans'[k].metadata_hash = loans[k].metadata_hash ]_vars

\* a transaction whose progress was saved minted the token to the wallet
MintedTo(wallet, id) ==
    \E i \in processed :
        \E e \in 1..Len(Receipt(chain[i].hash).events) :
            LET ev == Receipt(chain[i].hash).events[e]
            IN  /\ ev.event_name = "TransferSingle"
                /\ IsMint(ev)
                /\ ev.id = id
                /\ Lower(ev.to) = Lower(wallet)

\* C34: a secondary TransferSingle sent by an admin address that was minted the supply
\* of the token is applied without error and raises the receiver's slices_owned by the
\* value transferred.
C34_TreasuryTransferApplies ==
    [][ ( /\ AtEvent /\ IsTransfer(CurEvent) /\ EventStep
          /\ CurEvent.from_ \in ADMIN_ADDRESSES
          /\ MintedTo(CurEvent.from_, CurEvent.id)
          /\ LoansByToken(DB, CurEvent.id) # {} ) =>
          LET l == Min(LoansByToken(DB, CurEvent.id))
          IN  /\ Applied
              /\ SlicesOf(positions', Lower(CurEvent.to), l) =
                     SlicesOf(positions, Lower(CurEvent.to), l) + CurEvent.value ]_vars

\* C37: a transaction whose receipt status is not success changes nothing in the ledger
\* and does not move the cursor, and the call goes on with the next transaction of the
\* list (or returns when it was the last).
C37_FailedTxSkipped ==
    [][ (pc = "run" /\ Receipt(CurTx.hash).status # 1 /\ lastResult' # "crash") =>
          /\ Ledger(loans', investors', positions', cashflows') = DB
          /\ credited' = credited
          /\ last_synced_block' = last_synced_block
          /\ IF txIdx < Len(tx_list)
             THEN pc' = "run" /\ txIdx' = txIdx + 1 /\ evIdx' = 1
             ELSE pc' = "idle" /\ lastResult' = "processed" ]_vars

\* what the step added to the balance_due of the first k positions, those of the loan
RECURSIVE CreditedSum(_, _, _, _)
CreditedSum(before, after, loan, k) ==
    IF k = 0 THEN 0
    ELSE CreditedSum(before, after, loan, k - 1)
         + (IF before[k].loan = loan
            THEN after[k].balance_due - before[k].balance_due ELSE 0)

TrancheStep == pc = "tranche" /\ runs' = runs + 1 /\ lastResult'.op = "distribute"

\* C39: a distribution for a loan with tranches sends depositDividends for the loan's
\* senior_id and for no other id; when the target has no sibling or no supply, the
\* request sends no transaction at all (no approve, no deposit), fails, and changes no
\* position and no CashflowHistory row.
C39_TranchePreflight ==
    [][ TrancheStep =>
          LET r == lastResult'
          IN  /\ \A t \in (Len(chain) + 1)..Len(chain') :
                     chain'[t].call = "depositDividends" =>
                         chain'[t].id = loans[r.loan].senior_id
              /\ r.ok => chain'[Len(chain')] =
                             ChainCall("depositDividends", loans[r.loan].senior_id)
              /\ (r.sibling = 0 \/ r.supply = 0) =>
                     /\ chain' = chain
                     /\ ~r.ok
                     /\ Ledger(loans', investors', positions', cashflows') = DB ]_vars

\* C38: over any number of polls, interrupted ones included, no log has raised the
\* balance_due of one position more than once; and a poll that finds the stored last
\* block at or beyond the head changes neither the ledger nor the stored block.
C38_PollCreditsOnce ==
    [][ /\ \A i \in 1..Len(chain) : \A k \in 1..Len(positions) :
               CreditCount(credited', chain[i].hash, k) <= 1
        /\ (pc = "idle" /\ LastBlock(Latest, last_synced_block) >= Latest) =>
               /\ Ledger(loans', investors', positions', cashflows') = DB
               /\ last_synced_block' = last_synced_block ]_vars

\* no event of the feed raises when the feed is applied in order from entry t on
RECURSIVE FeedApplies(_, _, _)
FeedApplies(db, feed, t) ==
    IF t > Len(feed) THEN TRUE
    ELSE IF Receipt(feed[t].hash).status # 1 THEN FeedApplies(db, feed, t + 1)
    ELSE LET out == ApplyEvents(db, feed[t].hash, Receipt(feed[t].hash).events, 1)
         IN  ~out.raised /\ FeedApplies(out.db, feed, t + 1)

\* the block of the last transaction of the feed whose receipt says success
LastSuccessBlock(feed) ==
    LET ok == { t \in 1..Len(feed) : Receipt(feed[t].hash).status = 1 }
    IN  IF ok = {} THEN 0 ELSE feed[CHOOSE t \in ok : \A u \in ok : u <= t].blockNumber

\* C36: when no transaction of the feed raises a data error, calls of the reconciler
\* made again and again bring last_synced_block to the block of the feed's last
\* successful transaction; and in any case the cursor gets there or a call ends with an
\* error that is reported.
C36_EventuallySynced ==
    /\ FeedApplies(EmptyLedger, chain, 1) =>
           <>(last_synced_block = LastSuccessBlock(chain))
    /\ <>(last_synced_block = LastSuccessBlock(chain) \/ lastResult = "error")

-----------------------------------------------------------------------------
(* Witnesses *)

\* a second call, started from a cursor above 0, is applying a transaction that an
\* earlier call left unprocessed
C7_Witness ==
    /\ pc = "run"
    /\ runs = 2
    /\ startCursor > 0
    /\ startblock = startCursor + 1
    /\ evIdx > 1

\* a second call has moved the cursor on from where the first one left it
C9_Witness ==
    /\ pc = "run"
    /\ runs = 2
    /\ startCursor > 0
    /\ last_synced_block > startCursor

\* the fetch failed for a call made after an earlier call had filled the ledger and
\* moved the cursor
C12_Witness ==
    /\ pc = "idle"
    /\ lastResult = "fetch_error"
    /\ last_synced_block > 0
    /\ positions # <<>>

\* a deposit failed on chain for a loan that has a position to pay
C13_Witness ==
    /\ pc = "admin"
    /\ lastResult.op = "distribute"
    /\ ~lastResult.chain_ok
    /\ PositionsOn(positions, lastResult.loan) # {}

\* a transfer succeeded for an investor who already held slices on the loan
C16_Witness ==
    /\ pc = "admin"
    /\ lastResult.op = "create_position"
    /\ lastResult.chain_ok
    /\ SlicesOf(positions, lastResult.investor, lastResult.loan) > lastResult.slices

\* the treasury has been minted slices of a loan that has a position
C21_Witness ==
    /\ pc = "run"
    /\ CurTx.hash = "0xa9"
    /\ evIdx = 2
    /\ positions # <<>>
    /\ \E k \in 1..Len(loans) : loans[k].token_id = 1

\* a second mint to 0xaa has been added to the 40 slices it held, next to a position
\* of 0xbb
C22_Witness ==
    /\ pc = "run"
    /\ CurTx.hash = "0xa1"
    /\ evIdx = 2
    /\ Len(positions) = 2
    /\ SlicesOf(positions, "0xaa", 1) = 80

\* both deposits of 0xd9 have been skipped, the second for a Loan of 0 slices that
\* has a position
C23_Witness ==
    /\ pc = "run"
    /\ CurTx.hash = "0xd9"
    /\ evIdx = 3
    /\ \E k \in 1..Len(loans) :
           /\ loans[k].token_id = 3
           /\ loans[k].total_slices = 0
           /\ PositionsOn(positions, k) # {}

\* a deposit has been shared out as the third transaction of a call, after a mint
C30_Witness ==
    /\ pc = "run"
    /\ runs = 1
    /\ CurTx.hash = "0xd4"
    /\ evIdx = 2
    /\ txIdx = 3
    /\ cashflows # <<>>
    /\ \E k \in 1..Len(positions) : positions[k].balance_due > 0
    /\ \E j \in 1..2 : IsMint(Receipt(chain[j].hash).events[1])

\* check_integrity has answered false for a tokenized loan whose gateway returned an
\* altered document
C25_Witness ==
    /\ pc = "tokenize"
    /\ lastResult.op = "check_integrity"
    /\ lastResult.resp = "other"
    /\ loans[lastResult.loan].tokenized
    /\ ~lastResult.ok

\* one loan has been tokenized through the local node and the other, with tranches,
\* through the pinning service
C26_Witness ==
    /\ pc = "tokenize"
    /\ loans[1].tokenized
    /\ loans[2].tokenized
    /\ loans[2].tranches
    /\ loans[1].metadata_cid = CidOf(Dumps(CreateLoanMetadata(loans[1])))
    /\ loans[2].metadata_cid # CidOf(Dumps(CreateLoanMetadata(loans[2])))

\* the upload went through and the chain call failed: the loan is as it was
C28_Witness ==
    /\ pc = "tokenize"
    /\ lastResult.op = "tokenize"
    /\ lastResult.upload = "pinata"
    /\ ~lastResult.chain_ok
    /\ ~loans[lastResult.loan].tokenized
    /\ snap # {}

\* a second request for a loan that is tokenized has been turned away
C40_Witness ==
    /\ pc = "tokenize"
    /\ lastResult.op = "tokenize"
    /\ lastResult.upload = ""
    /\ loans[lastResult.loan].tokenized
    /\ Len(chain) = 1

\* two tokens have their Loan rows, one of them updated by a TokenCreated event
C32_Witness ==
    /\ pc = "run"
    /\ Len(loans) = 2
    /\ \E k \in 1..Len(loans) : loans[k].metadata_hash = "f1"

\* a failed transaction of a later block was skipped after a mint was applied: the
\* call stands at the next transaction and the cursor is below the failed one's block
C37_Witness ==
    /\ pc = "run"
    /\ txIdx >= 2
    /\ evIdx = 1
    /\ Receipt(tx_list[txIdx - 1].hash).status # 1
    /\ positions # <<>>
    /\ last_synced_block < tx_list[txIdx - 1].blockNumber

C39_Witness ==
    /\ pc = "tranche"
    /\ lastResult.op = "distribute"
    /\ lastResult.sibling # 0
    /\ lastResult.supply = 0
    /\ ~lastResult.ok
    /\ Len(chain) = 2
    /\ \E k \in 1..Len(positions) : positions[k].balance_due > 0

====
